---- MODULE Spec2Model ----
(***************************************************************************)
(* Model of the medusa-paypal payment provider.                            *)
(*                                                                         *)
(* The components are modelled each under its own specification:           *)
(*                                                                         *)
(*   Spec        the status reconciler: capturePayment, authorizePayment   *)
(*               (PaypalModuleService) and captureOrder (PaypalService),   *)
(*               run by concurrent requests against one remote order.      *)
(*   SpecProvider  these and refundPayment, getPaymentStatus and           *)
(*               retrievePayment, called one after the other.              *)
(*               Every await of the code is a step boundary; the remote    *)
(*               processor handles one request per step.                   *)
(*   SpecWebhook the webhook verifier and mapper: constructWebhookEvent,   *)
(*               verifyWebhook and getWebhookActionAndData.                *)
(*   SpecAmount  formatAmount and the request body of createOrder, on      *)
(*               amounts given with up to three decimals.                  *)
(*   SpecRate    RateLimiter of utils/security.ts under calls, clock       *)
(*               advances and cleanup.                                     *)
(*   SpecRoute   the client-token route POST with its rate limiter.        *)
(*   SpecLifecycle  one order from initiatePayment, or from outside the    *)
(*               plugin, through the concurrent requests of Spec.          *)
(*                                                                         *)
(* The remote order is the projection the code reads: status, intent, the  *)
(* status of purchaseUnits[0].payments.authorizations[0] and of            *)
(* purchaseUnits[0].payments.captures[0] ("NONE" when the record is        *)
(* absent).  Authorizations always carry an identifier.                    *)
(***************************************************************************)
EXTENDS Naturals, Integers, Sequences, FiniteSets

VARIABLES
    order,            \* the remote order, as the processor holds it
    pc,               \* per request: the await it is suspended at
    op,               \* per request: the operation it runs
    orderDetails,     \* per request: the order retrieved by the provider method
    coDetails,        \* per request: the order retrieved inside captureOrder
    result,           \* per request: what the operation returned or threw
    hist,             \* per request: remote calls issued by the current invocation
    ninv,             \* invocations started so far
    authCapWhileCompleted, \* an authorization-capture call was issued while the
                           \* remote order already held a COMPLETED capture
    refund,           \* per request: the capture ids of refundPayment and how
                      \* many of them the processor has refunded
    wh,               \* the webhook request being processed
    amt,              \* the amount being formatted or the createOrder call made
    rl,               \* the rate limiter, its clock and the calls made to it
    rt                \* the client-token route: the request being served

vars == <<order, pc, op, orderDetails, coDetails, result, hist, ninv,
          authCapWhileCompleted, refund, wh, amt, rl, rt>>

payVars == <<order, pc, op, orderDetails, coDetails, result, hist, ninv,
             authCapWhileCompleted, refund>>

----------------------------------------------------------------------------
(* Bounds *)

MaxInvocations == 2

\* The longest list of capture ids handed to refundPayment.
MaxCaptures == 2

\* Amounts formatted: 0 .. MaxMilli thousandths, and the two of the
\* documentation.
MaxMilli == 1100

\* createOrder: the most items and the largest quantity of an item.
MaxItems == 2

MaxQuantity == 2

\* The rate limiter: its constructor arguments limit and windowMs, the last
\* instant of the clock and the most calls made.
Limit == 2

WindowMs == 2

MaxTime == 4

MaxCalls == 5

Procs == {"r1", "r2"}

----------------------------------------------------------------------------
(* The remote order as the code reads it *)

OrderStatuses == {"CREATED", "APPROVED", "COMPLETED", "VOIDED"}

Intents == {"AUTHORIZE", "CAPTURE"}

AuthorizationStatuses == {"NONE", "CREATED", "CAPTURED", "VOIDED", "DENIED"}

CaptureStatuses == {"NONE", "COMPLETED", "PENDING", "DECLINED"}

Orders == [status : OrderStatuses, intent : Intents,
           auth : AuthorizationStatuses, capture : CaptureStatuses]

NoOrder == [status |-> "NONE", intent |-> "NONE", auth |-> "NONE", capture |-> "NONE"]

NoResult == [kind |-> "none", status |-> "NONE", error |-> "NONE",
             data |-> NoOrder, captureAtReturn |-> "NONE"]

\* The remote calls of one invocation, counted by kind; failed counts those
\* the processor refused or that did not complete, unchecked those issued
\* with an identifier on which the invocation ran no format check, malformed
\* those issued with an identifier that does not have the format.
NoCalls == [retrieve |-> 0, authorize |-> 0, authCapture |-> 0, directCapture |-> 0,
            refund |-> 0, failed |-> 0, unchecked |-> 0, malformed |-> 0]

NoRefund == [captureIds |-> <<>>, refunded |-> 0, called |-> <<>>]

\* Capture ids as refundPayment finds them in input.data.purchaseUnits: two
\* that have the format and one that has not.
CaptureIds == {"CAP1", "CAP2", "malformed"}

validatePayPalCaptureId(captureId) == captureId # "malformed"

CaptureIdLists == UNION {[1..n -> CaptureIds] : n \in 0..MaxCaptures}

----------------------------------------------------------------------------
(* Pure decisions of the code *)

\* PaypalModuleService.capturePayment, the branch taken on the retrieved order.
CapturePaymentBranch_AuthorizationFirst(o) ==
    IF o.auth = "CREATED" THEN "authorization"
    ELSE IF o.status = "COMPLETED" THEN "completed"
    ELSE IF o.status = "APPROVED" THEN "approved"
    ELSE "invalid"

CapturePaymentBranch_NoStatusCheck(o) ==
    IF o.status = "COMPLETED" THEN "completed"
    ELSE IF o.auth = "CREATED" THEN "authorization"
    ELSE "approved"

CapturePaymentBranch(o) ==
    IF o.status = "COMPLETED" THEN "completed"
    ELSE IF o.auth = "CREATED" THEN "authorization"
    ELSE IF o.status = "APPROVED" THEN "approved"
    ELSE "invalid"

\* PaypalService.captureOrder, the branch taken on the order it retrieves itself.
CaptureOrderBranch_DirectFirst(o) ==
    IF o.intent = "CAPTURE" /\ o.status = "APPROVED" THEN "direct"
    ELSE IF o.auth = "CREATED" THEN "authorization"
    ELSE IF o.capture = "COMPLETED" THEN "already"
    ELSE "invalid"

CaptureOrderBranch_AnyAuthorization(o) ==
    IF o.auth # "NONE" THEN "authorization"
    ELSE IF o.capture = "COMPLETED" THEN "already"
    ELSE IF o.intent = "CAPTURE" /\ o.status = "APPROVED" THEN "direct"
    ELSE "invalid"

CaptureOrderBranch_WrongIntent(o) ==
    IF o.auth = "CREATED" THEN "authorization"
    ELSE IF o.capture = "COMPLETED" THEN "already"
    ELSE IF o.intent = "AUTHORIZE" /\ o.status = "APPROVED" THEN "direct"
    ELSE "invalid"

CaptureOrderBranch(o) ==
    IF o.auth = "CREATED" THEN "authorization"
    ELSE IF o.capture = "COMPLETED" THEN "already"
    ELSE IF o.intent = "CAPTURE" /\ o.status = "APPROVED" THEN "direct"
    ELSE "invalid"

\* PaypalModuleService.authorizePayment, the status reported for an order that
\* is not APPROVED.
AuthorizeStatusForOrder_StatusOnly(o) ==
    IF o.status = "CREATED" THEN "PENDING"
    ELSE IF o.status = "COMPLETED" THEN "CAPTURED"
    ELSE "ERROR"

AuthorizeStatusForOrder(o) ==
    IF o.auth = "CREATED" THEN "AUTHORIZED"
    ELSE IF o.status = "COMPLETED" \/ o.capture = "COMPLETED" THEN "CAPTURED"
    ELSE IF o.status = "CREATED" THEN "PENDING"
    ELSE "ERROR"

\* PaypalModuleService.authorizePayment, the status reported for the response
\* of the authorize call: r.auth and r.capture are the response's first
\* authorization and first capture.
AuthorizeStatusForResponse_ReportCapture(r) ==
    IF r.auth = "CREATED" THEN "AUTHORIZED"
    ELSE IF r.auth = "CAPTURED" THEN "CAPTURED"
    ELSE IF r.capture # "NONE" THEN "AUTHORIZED"
    ELSE "ERROR"

AuthorizeStatusForResponse(r) ==
    IF r.auth = "CREATED" THEN "AUTHORIZED"
    ELSE IF r.auth = "CAPTURED" THEN "AUTHORIZED"
    ELSE IF r.capture # "NONE" THEN "AUTHORIZED"
    ELSE "ERROR"

----------------------------------------------------------------------------
(* The remote processor.  Each operator gives the outcomes of one request:  *)
(* ok = FALSE is a non-success HTTP response (the SDK call or fetch throws), *)
(* order is the remote order after the request.                              *)

\* POST /v2/payments/authorizations/{id}/capture: an authorization in CREATED
\* state is captured with capture status c; a capture that is not DECLINED
\* consumes the authorization, a COMPLETED one completes the order.
AfterCaptureAuthorization(o, c) ==
    [o EXCEPT !.capture = IF o.capture = "COMPLETED" THEN "COMPLETED" ELSE c,
              !.auth    = IF c = "DECLINED" THEN o.auth ELSE "CAPTURED",
              !.status  = IF c = "COMPLETED" THEN "COMPLETED" ELSE o.status]

RemoteCaptureAuthorization(o) ==
    {[ok |-> FALSE, order |-> o]} \cup
    (IF o.auth = "CREATED"
     THEN {[ok |-> TRUE, order |-> AfterCaptureAuthorization(o, c)] :
              c \in {"COMPLETED", "PENDING", "DECLINED"}}
     ELSE {})

\* POST /v2/checkout/orders/{id}/capture: works for an approved order of
\* direct-capture intent that has not been captured yet.
AfterCaptureOrder(o, c) ==
    [o EXCEPT !.capture = c,
              !.status  = IF c = "COMPLETED" THEN "COMPLETED" ELSE o.status]

RemoteCaptureOrder(o) ==
    {[ok |-> FALSE, order |-> o]} \cup
    (IF o.intent = "CAPTURE" /\ o.status = "APPROVED" /\ o.capture # "COMPLETED"
     THEN {[ok |-> TRUE, order |-> AfterCaptureOrder(o, c)] :
              c \in {"COMPLETED", "PENDING", "DECLINED"}}
     ELSE {})

\* POST /v2/checkout/orders/{id}/authorize: works for an approved order of
\* authorize intent without an authorization.  The response carries the new
\* authorization (a) and, when the processor captured at once, a capture (c).
AuthorizeOutcomes ==
    {[auth |-> "CREATED", capture |-> "NONE"],
     [auth |-> "CAPTURED", capture |-> "NONE"],
     [auth |-> "CAPTURED", capture |-> "COMPLETED"],
     [auth |-> "DENIED", capture |-> "NONE"],
     [auth |-> "NONE", capture |-> "COMPLETED"],
     [auth |-> "NONE", capture |-> "NONE"]}

AfterAuthorizeOrder(o, r) ==
    [o EXCEPT !.auth    = IF r.auth = "NONE" THEN o.auth ELSE r.auth,
              !.capture = IF r.auth = "CAPTURED" \/ r.capture = "COMPLETED"
                          THEN "COMPLETED" ELSE o.capture,
              !.status  = IF r.auth = "CAPTURED" \/ r.capture = "COMPLETED"
                          THEN "COMPLETED" ELSE o.status]

RemoteAuthorizeOrder(o) ==
    {[ok |-> FALSE, order |-> o, response |-> [auth |-> "NONE", capture |-> "NONE"]]} \cup
    (IF o.intent = "AUTHORIZE" /\ o.status = "APPROVED" /\ o.auth = "NONE"
     THEN {[ok |-> TRUE, order |-> AfterAuthorizeOrder(o, r), response |-> r] :
              r \in AuthorizeOutcomes}
     ELSE {})

----------------------------------------------------------------------------
(* Results *)

Returned(status, data, cap) ==
    [kind |-> "return", status |-> status, error |-> "NONE",
     data |-> data, captureAtReturn |-> cap]

Thrown(error) ==
    [kind |-> "throw", status |-> "NONE", error |-> error,
     data |-> NoOrder, captureAtReturn |-> "NONE"]

Finish(p, r) ==
    /\ pc' = [pc EXCEPT ![p] = "done"]
    /\ result' = [result EXCEPT ![p] = r]

\* What PaypalService.captureOrder's caller makes of the order it returns:
\* capturePayment reports CAPTURED, a direct caller gets the order.
CaptureOrderReturns(p, o, cap) ==
    Finish(p, Returned(IF op[p] = "capturePayment" THEN "CAPTURED" ELSE "ORDER", o, cap))

Issued(p, call) == [hist EXCEPT ![p][call] = @ + 1]

\* A call issued with an identifier that the invocation has not put through
\* validatePayPalOrderId or validatePayPalCaptureId.
IssuedUnchecked(p, call) ==
    [hist EXCEPT ![p][call] = @ + 1, ![p].unchecked = @ + 1,
                 ![p].malformed = IF @ > 0 THEN @ + 1 ELSE @]

\* The operations that check the format of the order id before their first
\* remote call; authorizePayment checks its presence only and
\* PaypalService.captureOrder checks nothing.
ValidatesOrderId(operation) ==
    operation \in {"capturePayment", "refundPayment", "getPaymentStatus", "retrievePayment"}

\* A call issued with the order id of the invocation.
IssuedWithOrderId(p, call) ==
    IF ValidatesOrderId(op[p]) THEN Issued(p, call) ELSE IssuedUnchecked(p, call)

\* A remote call of the invocation failed and the error went to the caller.
Fail(p) ==
    /\ Finish(p, Thrown("upstream-failure"))
    /\ hist' = [hist EXCEPT ![p].failed = @ + 1]

----------------------------------------------------------------------------
(* The webhook verifier and mapper *)

\* requiredHeaders of constructWebhookEvent, in the order they are checked.
RequiredHeaders ==
    <<"paypal-auth-algo", "paypal-cert-url", "paypal-transmission-id",
      "paypal-transmission-sig", "paypal-transmission-time">>

HeaderNames == {RequiredHeaders[i] : i \in 1..Len(RequiredHeaders)}

\* rawData of the payload: a string holding a JSON object, a string that is
\* not JSON, the string "null" (JSON, but no object), or an object already.
RawKinds == {"json", "garbage", "null", "object"}

EventTypes ==
    {"PAYMENT.CAPTURE.COMPLETED", "PAYMENT.CAPTURE.PENDING", "PAYMENT.CAPTURE.DENIED",
     "PAYMENT.CAPTURE.FAILED", "PAYMENT.AUTHORIZATION.CREATED",
     "PAYMENT.AUTHORIZATION.VOIDED", "CHECKOUT.ORDER.APPROVED",
     "CHECKOUT.PAYMENT-APPROVAL.REVERSED", "PAYMENT.CAPTURE.REFUNDED",
     "PAYMENT.REFUND.COMPLETED", "CHECKOUT.ORDER.CANCELLED", "UNKNOWN.EVENT.TYPE"}

\* The first required header that the request lacks, "NONE" if it has all.
FirstMissing(headers) ==
    IF \A i \in 1..Len(RequiredHeaders) : RequiredHeaders[i] \in headers
    THEN "NONE"
    ELSE RequiredHeaders[CHOOSE i \in 1..Len(RequiredHeaders) :
                            /\ RequiredHeaders[i] \notin headers
                            /\ \A j \in 1..(i - 1) : RequiredHeaders[j] \in headers]

NotConstructed ==
    [ok |-> FALSE, error |-> "NONE", missing |-> "NONE", parsed |-> FALSE, body |-> "NONE"]

\* PaypalModuleService.constructWebhookEvent: parsed tells whether JSON.parse
\* was called, body what the event body is ("event": an object with
\* event_type and resource).
ConstructWebhookEvent_ParseFirst(headers, raw) ==
    IF raw = "garbage"
    THEN [ok |-> FALSE, error |-> "malformed-payload", missing |-> "NONE",
          parsed |-> TRUE, body |-> "NONE"]
    ELSE IF FirstMissing(headers) # "NONE"
    THEN [ok |-> FALSE, error |-> "missing-header", missing |-> FirstMissing(headers),
          parsed |-> raw # "object", body |-> "NONE"]
    ELSE [ok |-> TRUE, error |-> "NONE", missing |-> "NONE", parsed |-> raw # "object",
          body |-> IF raw = "null" THEN "null" ELSE "event"]

ConstructWebhookEvent(headers, raw) ==
    IF FirstMissing(headers) # "NONE"
    THEN [ok |-> FALSE, error |-> "missing-header", missing |-> FirstMissing(headers),
          parsed |-> FALSE, body |-> "NONE"]
    ELSE IF raw = "garbage"
    THEN [ok |-> FALSE, error |-> "malformed-payload", missing |-> "NONE",
          parsed |-> TRUE, body |-> "NONE"]
    ELSE [ok |-> TRUE, error |-> "NONE", missing |-> "NONE", parsed |-> raw # "object",
          body |-> IF raw = "null" THEN "null" ELSE "event"]

\* PaypalService.verifyWebhook, the two checks on the verification response.
VerificationPasses_HttpOnly(httpOk, status) == httpOk

VerificationPasses(httpOk, status) == httpOk /\ status = "SUCCESS"

\* The case labels of the switch of getWebhookActionAndData.
SwitchCases ==
    {"PAYMENT.CAPTURE.COMPLETED", "PAYMENT.CAPTURE.PENDING", "PAYMENT.CAPTURE.DENIED",
     "PAYMENT.CAPTURE.FAILED", "PAYMENT.AUTHORIZATION.CREATED",
     "PAYMENT.AUTHORIZATION.VOIDED", "CHECKOUT.ORDER.APPROVED",
     "CHECKOUT.PAYMENT-APPROVAL.REVERSED", "PAYMENT.CAPTURE.REFUNDED",
     "PAYMENT.REFUND.COMPLETED"}

\* getWebhookActionAndData, the switch on the event type (the values of
\* PaymentActions).
WebhookAction_DefaultFails(eventType) ==
    CASE eventType = "PAYMENT.CAPTURE.COMPLETED" -> "SUCCESSFUL"
      [] eventType = "PAYMENT.CAPTURE.PENDING" -> "PENDING"
      [] eventType \in {"PAYMENT.CAPTURE.DENIED", "PAYMENT.CAPTURE.FAILED"} -> "FAILED"
      [] eventType = "PAYMENT.AUTHORIZATION.CREATED" -> "AUTHORIZED"
      [] eventType = "PAYMENT.AUTHORIZATION.VOIDED" -> "CANCELED"
      [] eventType = "CHECKOUT.ORDER.APPROVED" -> "REQUIRES_MORE"
      [] eventType = "CHECKOUT.PAYMENT-APPROVAL.REVERSED" -> "FAILED"
      [] eventType \in {"PAYMENT.CAPTURE.REFUNDED", "PAYMENT.REFUND.COMPLETED"} -> "SUCCESSFUL"
      [] OTHER -> "FAILED"

WebhookAction(eventType) ==
    CASE eventType = "PAYMENT.CAPTURE.COMPLETED" -> "SUCCESSFUL"
      [] eventType = "PAYMENT.CAPTURE.PENDING" -> "PENDING"
      [] eventType \in {"PAYMENT.CAPTURE.DENIED", "PAYMENT.CAPTURE.FAILED"} -> "FAILED"
      [] eventType = "PAYMENT.AUTHORIZATION.CREATED" -> "AUTHORIZED"
      [] eventType = "PAYMENT.AUTHORIZATION.VOIDED" -> "CANCELED"
      [] eventType = "CHECKOUT.ORDER.APPROVED" -> "REQUIRES_MORE"
      [] eventType = "CHECKOUT.PAYMENT-APPROVAL.REVERSED" -> "FAILED"
      [] eventType \in {"PAYMENT.CAPTURE.REFUNDED", "PAYMENT.REFUND.COMPLETED"} -> "SUCCESSFUL"
      [] OTHER -> "NOT_SUPPORTED"

NoVerification == [received |-> FALSE, ok |-> FALSE, status |-> "NONE"]

\* The stages of webhook processing, in the order of the code: the header
\* loop and JSON.parse of constructWebhookEvent, verifyWebhook, the switch.
WebhookStages ==
    <<"headers-validated", "body-parsed", "signature-verified", "action-mapped">>

\* The stages constructWebhookEvent has passed when it ends with c.
ConstructStages(c) ==
    IF c.ok THEN <<"headers-validated", "body-parsed">>
    ELSE IF c.error = "malformed-payload" THEN <<"headers-validated">>
    ELSE <<>>

\* The webhook request: its input, the stage it is suspended at, what
\* constructWebhookEvent made of it, the outbound calls issued, the
\* verification response, and the outcome.  webhookId is the plugin option.
WebhookIdle(hasWebhookId) ==
    [stage |-> "idle", op |-> "none", webhookId |-> hasWebhookId,
     headers |-> {}, raw |-> "NONE", eventType |-> "NONE",
     construct |-> NotConstructed, stages |-> <<>>, calls |-> <<>>,
     verification |-> NoVerification, mapped |-> FALSE, outcome |-> [kind |-> "none", action |-> "NONE", error |-> "NONE"]]

----------------------------------------------------------------------------
(* Numbers of the code: IEEE 754 doubles, round to nearest, ties to even *)

\* A natural number is a sequence of limbs of 15 bits, lowest first; a
\* double is [m, e] with at most 53 significant bits in m and the value
\* m * 2^e.  Amounts are far from the ends of the exponent range.
Base == 2^15

RECURSIVE LimbsOf(_)
LimbsOf(n) == IF n = 0 THEN <<>> ELSE <<n % Base>> \o LimbsOf(n \div Base)

RECURSIVE NatOf(_)
NatOf(a) == IF a = <<>> THEN 0 ELSE Head(a) + Base * NatOf(Tail(a))

RECURSIVE Trim(_)
Trim(a) ==
    IF a = <<>> \/ a[Len(a)] # 0 THEN a ELSE Trim(SubSeq(a, 1, Len(a) - 1))

Zeros(k) == [i \in 1..k |-> 0]

RECURSIVE AddCarry(_, _, _)
AddCarry(a, b, c) ==
    IF a = <<>> /\ b = <<>>
    THEN LimbsOf(c)
    ELSE LET x == IF a = <<>> THEN 0 ELSE Head(a)
             y == IF b = <<>> THEN 0 ELSE Head(b)
             t == x + y + c
         IN  <<t % Base>> \o AddCarry(IF a = <<>> THEN a ELSE Tail(a),
                                      IF b = <<>> THEN b ELSE Tail(b), t \div Base)

\* a * k + c for k and c below Base.
RECURSIVE MulSmall(_, _, _)
MulSmall(a, k, c) ==
    IF a = <<>> THEN LimbsOf(c)
    ELSE LET t == Head(a) * k + c
         IN  <<t % Base>> \o MulSmall(Tail(a), k, t \div Base)

RECURSIVE BigMul(_, _)
BigMul(a, b) ==
    IF a = <<>> THEN <<>>
    ELSE AddCarry(MulSmall(b, Head(a), 0), <<0>> \o BigMul(Tail(a), b), 0)

\* Quotient and remainder of the limbs 1..i of a by d, for d below Base.
RECURSIVE DivStep(_, _, _, _)
DivStep(a, i, d, r) ==
    IF i = 0 THEN [q |-> <<>>, r |-> r]
    ELSE LET t == r * Base + a[i]
             rest == DivStep(a, i - 1, d, t % d)
         IN  [q |-> rest.q \o <<t \div d>>, r |-> rest.r]

\* The number of significant bits of a.
BitLength(a) ==
    LET b == Trim(a) IN
    IF b = <<>> THEN 0
    ELSE 15 * (Len(b) - 1)
         + CHOOSE k \in 1..15 : b[Len(b)] < 2^k /\ b[Len(b)] >= 2^(k - 1)

\* Bit j of a, the lowest being bit 1.
Bit(a, j) ==
    LET i == ((j - 1) \div 15) + 1 IN
    IF j < 1 \/ i > Len(a) THEN 0 ELSE (a[i] \div 2^((j - 1) % 15)) % 2

\* The bits 1..j of a are zero.
LowBitsZero(a, j) ==
    \A i \in 1..Len(a) :
        /\ i <= j \div 15 => a[i] = 0
        /\ i = (j \div 15) + 1 => a[i] % 2^(j % 15) = 0

\* a * 2^k and the integer part of a / 2^k.
ShiftLeft(a, k) == Zeros(k \div 15) \o MulSmall(a, 2^(k % 15), 0)

ShiftRight(a, k) ==
    LET w == k \div 15
        b == k % 15
    IN  Trim([i \in 1..(Len(a) - w) |->
                (a[i + w] \div 2^b)
                + (IF i + w + 1 <= Len(a) THEN (a[i + w + 1] % 2^b) * 2^(15 - b) ELSE 0)])

\* The double nearest to a * 2^e.
RoundToDouble(a, e) ==
    LET drop == BitLength(a) - 53 IN
    IF drop <= 0 THEN [m |-> Trim(a), e |-> e]
    ELSE LET kept == ShiftRight(a, drop)
             up == /\ Bit(a, drop) = 1
                   /\ ~LowBitsZero(a, drop - 1) \/ Bit(a, drop + 1) = 1
         IN  [m |-> IF up THEN AddCarry(kept, <<1>>, 0) ELSE kept, e |-> e + drop]

\* The double nearest to n / d: a decimal literal or Number() of a decimal
\* string (d a power of ten), and the division of the integer n by d.
DoubleOfRatio(n, d) ==
    LET num == Zeros(5) \o LimbsOf(n)
        dv == DivStep(num, Len(num), d, 0)
    IN  RoundToDouble(MulSmall(dv.q, 2, IF dv.r = 0 THEN 0 ELSE 1), 0 - 76)

DoubleOfNat(n) == RoundToDouble(LimbsOf(n), 0)

\* x * y and x + y of the code.
DoubleMul(x, y) == RoundToDouble(BigMul(x.m, y.m), x.e + y.e)

DoubleAdd(x, y) ==
    IF x.e <= y.e
    THEN RoundToDouble(AddCarry(x.m, ShiftLeft(y.m, y.e - x.e), 0), x.e)
    ELSE RoundToDouble(AddCarry(y.m, ShiftLeft(x.m, x.e - y.e), 0), y.e)

\* The integer part of m * 2^e and the bit of weight 1/2.
IntegerPart(m, e) ==
    IF e >= 0 THEN NatOf(ShiftLeft(m, e)) ELSE NatOf(ShiftRight(m, 0 - e))

HalfBit(m, e) == IF e < 0 THEN Bit(m, 0 - e) ELSE 0

\* Math.round of a double that is not negative: the nearest integer, a tie
\* going up.
MathRound(x) == IntegerPart(x.m, x.e) + HalfBit(x.m, x.e)

MathFloor(x) == IntegerPart(x.m, x.e)

DigitChars == <<"0", "1", "2", "3", "4", "5", "6", "7", "8", "9">>

RECURSIVE Digits(_)
Digits(k) ==
    IF k < 10 THEN <<DigitChars[k + 1]>>
    ELSE Digits(k \div 10) \o <<DigitChars[(k % 10) + 1]>>

\* Number.prototype.toFixed(2): the integer n for which n / 100 is nearest
\* to the exact value of x (the larger of two), written with two decimals.
\* A string is the sequence of its characters.
ToFixed2(x) ==
    LET n == IntegerPart(MulSmall(x.m, 100, 0), x.e) + HalfBit(MulSmall(x.m, 100, 0), x.e)
    IN  Digits(n \div 100) \o <<".", DigitChars[((n % 100) \div 10) + 1], DigitChars[(n % 10) + 1]>>

\* PaypalService.formatAmount.
formatAmount_Truncating(amount) ==
    LET rounded == DoubleOfRatio(MathFloor(DoubleMul(amount, DoubleOfNat(100))), 100)
    IN  ToFixed2(rounded)

formatAmount(amount) ==
    LET rounded == DoubleOfRatio(MathRound(DoubleMul(amount, DoubleOfNat(100))), 100)
    IN  ToFixed2(rounded)

\* An amount of the input, in thousandths, as the double the code gets.
NumberOf(milli) == DoubleOfRatio(milli, 1000)

\* createOrder: the item total, the reduce over the items starting at 0.
RECURSIVE ItemTotal(_, _)
ItemTotal(items, k) ==
    IF k = 0 THEN DoubleOfNat(0)
    ELSE DoubleAdd(ItemTotal(items, k - 1),
                   DoubleMul(NumberOf(items[k].unit_price), DoubleOfNat(items[k].quantity)))

NoRequest ==
    [sent |-> FALSE, intent |-> "NONE", value |-> <<>>, hasItems |-> FALSE,
     itemTotal |-> <<>>, unitAmounts |-> <<>>]

\* createOrder, the body handed to ordersController.createOrder.
CreateOrderBody_CaptureIntent(amount, items) ==
    [sent |-> TRUE, intent |-> "CAPTURE",
     value |-> formatAmount(NumberOf(amount)),
     hasItems |-> Len(items) > 0,
     itemTotal |-> formatAmount(IF Len(items) > 0 THEN ItemTotal(items, Len(items))
                                ELSE NumberOf(amount)),
     unitAmounts |-> [i \in 1..Len(items) |-> formatAmount(NumberOf(items[i].unit_price))]]

CreateOrderBody(amount, items) ==
    [sent |-> TRUE, intent |-> "AUTHORIZE",
     value |-> formatAmount(NumberOf(amount)),
     hasItems |-> Len(items) > 0,
     itemTotal |-> formatAmount(IF Len(items) > 0 THEN ItemTotal(items, Len(items))
                                ELSE NumberOf(amount)),
     unitAmounts |-> [i \in 1..Len(items) |-> formatAmount(NumberOf(items[i].unit_price))]]

AmountIdle(amount, items) ==
    [stage |-> "idle", amount |-> amount, items |-> items, formatted |-> <<>>,
     request |-> NoRequest, outcome |-> "none"]

----------------------------------------------------------------------------
(* RateLimiter *)

\* The keys of the store: `session_${sessionId}` of the client-token route.
Keys == {"session_cart_01HXA", "session_cart_01HXB"}

NoEntry == [present |-> FALSE, count |-> 0, resetTime |-> 0]

\* RateLimiter.isRateLimited on the entry of the client at time now: what it
\* returns and the entry it leaves in the store.
isRateLimited_OffByOne(entry, now) ==
    IF ~entry.present \/ now > entry.resetTime
    THEN [limited |-> FALSE,
          entry |-> [present |-> TRUE, count |-> 1, resetTime |-> now + WindowMs]]
    ELSE IF entry.count > Limit
    THEN [limited |-> TRUE, entry |-> entry]
    ELSE [limited |-> FALSE, entry |-> [entry EXCEPT !.count = @ + 1]]

isRateLimited_ExtendsWindow(entry, now) ==
    IF ~entry.present \/ now > entry.resetTime
    THEN [limited |-> FALSE,
          entry |-> [present |-> TRUE, count |-> 1, resetTime |-> now + WindowMs]]
    ELSE IF entry.count >= Limit
    THEN [limited |-> TRUE, entry |-> [entry EXCEPT !.resetTime = now + WindowMs]]
    ELSE [limited |-> FALSE, entry |-> [entry EXCEPT !.count = @ + 1]]

isRateLimited(entry, now) ==
    IF ~entry.present \/ now > entry.resetTime
    THEN [limited |-> FALSE,
          entry |-> [present |-> TRUE, count |-> 1, resetTime |-> now + WindowMs]]
    ELSE IF entry.count >= Limit
    THEN [limited |-> TRUE, entry |-> entry]
    ELSE [limited |-> FALSE, entry |-> [entry EXCEPT !.count = @ + 1]]

\* new RateLimiter(limit, windowMs) at time 0; admitted holds, per client,
\* the times of the calls that returned false, last the last call.  shadow
\* is the store of a limiter that receives the same isRateLimited calls at
\* the same instants and no cleanup, shadowLimited what its last call
\* returned.
RateLimiterNew ==
    [now |-> 0, store |-> [k \in Keys |-> NoEntry],
     admitted |-> [k \in Keys |-> <<>>], calls |-> 0,
     last |-> [op |-> "none", key |-> "NONE", limited |-> FALSE],
     shadow |-> [k \in Keys |-> NoEntry], shadowLimited |-> FALSE]

----------------------------------------------------------------------------
(* The client-token route *)

\* The most requests the route serves.
MaxRequests == 4

\* The limiter after isRateLimited(key), and what the call returned.
LimiterCall(r, key) ==
    LET c == isRateLimited(r.store[key], r.now)
        sh == isRateLimited(r.shadow[key], r.now)
    IN
    [limited |-> c.limited,
     rl |-> [r EXCEPT !.store[key] = c.entry,
                      !.shadow[key] = sh.entry,
                      !.shadowLimited = sh.limited,
                      !.admitted[key] = IF c.limited THEN @ ELSE Append(@, r.now),
                      !.calls = @ + 1,
                      !.last = [op |-> "isRateLimited", key |-> key,
                                limited |-> c.limited]]]

\* The limiter after cleanup(): the expired entries are deleted.
LimiterCleanup_AtResetTime(r) ==
    [r EXCEPT !.store = [k \in Keys |->
                            IF r.store[k].present /\ r.now >= r.store[k].resetTime
                            THEN NoEntry ELSE r.store[k]],
              !.last = [op |-> "cleanup", key |-> "NONE", limited |-> FALSE]]

LimiterCleanup(r) ==
    [r EXCEPT !.store = [k \in Keys |->
                            IF r.store[k].present /\ r.now > r.store[k].resetTime
                            THEN NoEntry ELSE r.store[k]],
              !.last = [op |-> "cleanup", key |-> "NONE", limited |-> FALSE]]

\* Values of req.body?.session_id: absent, a number, an empty string, a
\* string of seven characters and the strings of ten of the two sessions.
SessionIds ==
    {[type |-> "undefined", text |-> ""],
     [type |-> "number", text |-> "12345678901234"],
     [type |-> "string", text |-> ""],
     [type |-> "string", text |-> "cart_01"],
     [type |-> "string", text |-> "cart_01HXA"],
     [type |-> "string", text |-> "cart_01HXB"]}

\* !sessionId || typeof sessionId !== 'string' || sessionId.length < 10
InvalidSessionId(sessionId) ==
    \/ sessionId.type = "undefined"
    \/ sessionId.type = "string" /\ sessionId.text = ""
    \/ sessionId.type # "string"
    \/ Len(sessionId.text) < 10

ClientKey(sessionId) == "session_" \o sessionId.text

NoBody == [error |-> "", client_token |-> ""]

ErrorBody(message) == [error |-> message, client_token |-> ""]

GenericError == "Failed to generate client token. Please try again later."

\* What moduleDeclaration holds: no providers, providers without paypal,
\* providers with paypal.
ProviderConfigs == {"unconfigured", "nopaypal", "paypal"}

\* The messages of the errors getAccessToken throws.
AccessTokenErrors ==
    {"Failed to get access token: invalid_client",
     "Failed to get access token: Failed to get access token"}

\* The answers to the generate-token request: not ok, a body that is not
\* JSON, a body without client_token, a body with one.
TokenAnswers == {"not-ok", "not-json", "no-token", "token"}

ClientTokens == {"eyJicmFpbnRyZWUiOnsiYXV0"}

\* The route before a request. served counts the requests received,
\* outbound the requests this one sent to PayPal, limited is what
\* isRateLimited returned to it, before the limiter as the request found it
\* and error the message of the error its catch received.
RouteIdle ==
    [pc |-> "idle", sessionId |-> [type |-> "undefined", text |-> ""],
     status |-> 0, body |-> NoBody, outbound |-> 0, limited |-> FALSE,
     before |-> [store |-> [k \in Keys |-> NoEntry], calls |-> 0],
     error |-> "", served |-> 0]

\* res.status(status).json(body)
Respond(r, status, body) ==
    [r EXCEPT !.pc = "done", !.status = status, !.body = body]

\* The catch of POST: the error is logged and the fixed message is sent.
Caught_MessageExposed(r, message) ==
    [Respond(r, 500, ErrorBody(message)) EXCEPT !.error = message]

Caught(r, message) ==
    [Respond(r, 500, ErrorBody(GenericError)) EXCEPT !.error = message]

\* Lines 20-30 of POST: the session check, then the limiter; status 0 when
\* the request goes on.
PostEntry_IgnoreLimit(sessionId, r) ==
    IF InvalidSessionId(sessionId)
    THEN [status |-> 400, limited |-> FALSE, rl |-> r]
    ELSE LET c == LimiterCall(r, ClientKey(sessionId)) IN
         [status |-> 0, limited |-> c.limited, rl |-> c.rl]

PostEntry(sessionId, r) ==
    IF InvalidSessionId(sessionId)
    THEN [status |-> 400, limited |-> FALSE, rl |-> r]
    ELSE LET c == LimiterCall(r, ClientKey(sessionId)) IN
         [status |-> IF c.limited THEN 429 ELSE 0, limited |-> c.limited, rl |-> c.rl]

----------------------------------------------------------------------------
(* Init *)

Init ==
    /\ order \in [status : OrderStatuses, intent : Intents,
                  auth : {"NONE", "CREATED", "CAPTURED", "VOIDED"},
                  capture : CaptureStatuses]
    /\ pc = [p \in Procs |-> "idle"]
    /\ op = [p \in Procs |-> "none"]
    /\ orderDetails = [p \in Procs |-> NoOrder]
    /\ coDetails = [p \in Procs |-> NoOrder]
    /\ result = [p \in Procs |-> NoResult]
    /\ hist = [p \in Procs |-> NoCalls]
    /\ ninv = 0
    /\ authCapWhileCompleted = FALSE
    /\ refund = [p \in Procs |-> NoRefund]
    /\ wh = WebhookIdle(TRUE)
    /\ amt = AmountIdle(0, <<>>)
    /\ rl = RateLimiterNew
    /\ rt = RouteIdle

----------------------------------------------------------------------------
(* Requests *)

\* A request starts (or the previous one of this caller has ended and the
\* next starts): locals are fresh.
Begin(p, operation) ==
    /\ pc[p] \in {"idle", "done"}
    /\ ninv < MaxInvocations
    /\ ninv' = ninv + 1
    /\ op' = [op EXCEPT ![p] = operation]
    /\ orderDetails' = [orderDetails EXCEPT ![p] = NoOrder]
    /\ coDetails' = [coDetails EXCEPT ![p] = NoOrder]

\* capturePayment up to its first await: input checks, then retrieveOrder.
CapturePaymentStart(p) ==
    /\ Begin(p, "capturePayment")
    /\ \E input \in {"nodata", "noid", "badid", "ok"} :
          IF input = "ok"
          THEN /\ pc' = [pc EXCEPT ![p] = "cp_retrieve"]
               /\ result' = [result EXCEPT ![p] = NoResult]
               /\ hist' = [hist EXCEPT ![p] = [NoCalls EXCEPT !.retrieve = 1]]
          ELSE /\ Finish(p, Thrown("invalid-input"))
               /\ hist' = [hist EXCEPT ![p] = NoCalls]
    /\ refund' = [refund EXCEPT ![p] = NoRefund]
    /\ UNCHANGED <<order, authCapWhileCompleted, wh, amt, rl, rt>>

\* capturePayment from the response of retrieveOrder to its next await or end.
CapturePaymentRetrieve(p) ==
    /\ pc[p] = "cp_retrieve"
    /\ \E ok \in BOOLEAN :
          IF ~ok
          THEN /\ Fail(p)
               /\ UNCHANGED orderDetails
          ELSE /\ orderDetails' = [orderDetails EXCEPT ![p] = order]
               /\ LET branch == CapturePaymentBranch(order) IN
                  CASE branch = "completed" ->
                         /\ Finish(p, Returned("CAPTURED", order, order.capture))
                         /\ UNCHANGED hist
                    [] branch \in {"authorization", "approved"} ->
                         /\ pc' = [pc EXCEPT ![p] = "co_retrieve"]
                         /\ hist' = Issued(p, "retrieve")
                         /\ UNCHANGED result
                    [] OTHER ->
                         /\ Finish(p, Thrown("invalid-state"))
                         /\ UNCHANGED hist
    /\ UNCHANGED <<order, op, coDetails, ninv, authCapWhileCompleted, refund, wh, amt, rl, rt>>

\* PaypalService.captureOrder called by another caller than capturePayment.
CaptureOrderStart(p) ==
    /\ Begin(p, "captureOrder")
    /\ pc' = [pc EXCEPT ![p] = "co_retrieve"]
    /\ result' = [result EXCEPT ![p] = NoResult]
    /\ hist' = [hist EXCEPT ![p] = [NoCalls EXCEPT !.retrieve = 1, !.unchecked = 1]]
    /\ refund' = [refund EXCEPT ![p] = NoRefund]
    /\ UNCHANGED <<order, authCapWhileCompleted, wh, amt, rl, rt>>

\* captureOrder: the processor answers its retrieveOrder.
CaptureOrderRetrieve(p) ==
    /\ pc[p] = "co_retrieve"
    /\ \E ok \in BOOLEAN :
          IF ~ok
          THEN /\ Fail(p)
               /\ UNCHANGED coDetails
          ELSE /\ coDetails' = [coDetails EXCEPT ![p] = order]
               /\ pc' = [pc EXCEPT ![p] = "co_decide"]
               /\ UNCHANGED <<result, hist>>
    /\ UNCHANGED <<order, op, orderDetails, ninv, authCapWhileCompleted, refund, wh, amt, rl, rt>>

\* captureOrder: the continuation after retrieveOrder chooses the call and
\* issues it.
CaptureOrderDecide(p) ==
    /\ pc[p] = "co_decide"
    /\ LET branch == CaptureOrderBranch(coDetails[p]) IN
       CASE branch = "authorization" ->
              /\ pc' = [pc EXCEPT ![p] = "co_capture_authorization"]
              /\ hist' = IssuedUnchecked(p, "authCapture")
              /\ authCapWhileCompleted' =
                     (authCapWhileCompleted \/ order.capture = "COMPLETED")
              /\ UNCHANGED result
         [] branch = "already" ->
              /\ CaptureOrderReturns(p, coDetails[p], order.capture)
              /\ UNCHANGED <<hist, authCapWhileCompleted>>
         [] branch = "direct" ->
              /\ pc' = [pc EXCEPT ![p] = "co_capture_order"]
              /\ hist' = IssuedWithOrderId(p, "directCapture")
              /\ UNCHANGED <<result, authCapWhileCompleted>>
         [] OTHER ->
              /\ Finish(p, Thrown("invalid-state"))
              /\ UNCHANGED <<hist, authCapWhileCompleted>>
    /\ UNCHANGED <<order, op, orderDetails, coDetails, ninv, refund, wh, amt, rl, rt>>

\* PaypalService.captureAuthorization: the processor handles the capture of
\* the authorization; on success captureOrder retrieves the order again.
CaptureAuthorization(p) ==
    /\ pc[p] = "co_capture_authorization"
    /\ \E out \in RemoteCaptureAuthorization(order) :
          /\ order' = out.order
          /\ IF out.ok
             THEN /\ pc' = [pc EXCEPT ![p] = "co_retrieve_updated"]
                  /\ hist' = IssuedWithOrderId(p, "retrieve")
                  /\ UNCHANGED result
             ELSE Fail(p)
    /\ UNCHANGED <<op, orderDetails, coDetails, ninv, authCapWhileCompleted, refund, wh, amt, rl, rt>>

\* captureOrder: the processor answers the second retrieveOrder; the updated
\* order is returned.
CaptureOrderRetrieveUpdated(p) ==
    /\ pc[p] = "co_retrieve_updated"
    /\ \E ok \in BOOLEAN :
          IF ok
          THEN CaptureOrderReturns(p, order, order.capture) /\ UNCHANGED hist
          ELSE Fail(p)
    /\ UNCHANGED <<order, op, orderDetails, coDetails, ninv,
                   authCapWhileCompleted, refund, wh, amt, rl, rt>>

\* captureOrder: the processor handles the direct capture of the order; the
\* order of the response is returned.
DirectCapture(p) ==
    /\ pc[p] = "co_capture_order"
    /\ \E out \in RemoteCaptureOrder(order) :
          /\ order' = out.order
          /\ IF out.ok
             THEN CaptureOrderReturns(p, out.order, out.order.capture) /\ UNCHANGED hist
             ELSE Fail(p)
    /\ UNCHANGED <<op, orderDetails, coDetails, ninv, authCapWhileCompleted, refund, wh, amt, rl, rt>>

\* authorizePayment up to its first await.  The order id is checked for
\* presence only, so an id that does not have the format ("badid") goes
\* into retrieveOrder like one that has.
AuthorizePaymentStart(p) ==
    /\ Begin(p, "authorizePayment")
    /\ \E input \in {"nodata", "missing", "badid", "ok"} :
          IF input \in {"badid", "ok"}
          THEN /\ pc' = [pc EXCEPT ![p] = "ap_retrieve"]
               /\ result' = [result EXCEPT ![p] = NoResult]
               /\ hist' = [hist EXCEPT ![p] =
                              [NoCalls EXCEPT !.retrieve = 1, !.unchecked = 1,
                                              !.malformed = IF input = "badid" THEN 1 ELSE 0]]
          ELSE /\ Finish(p, Thrown("invalid-input"))
               /\ hist' = [hist EXCEPT ![p] = NoCalls]
    /\ refund' = [refund EXCEPT ![p] = NoRefund]
    /\ UNCHANGED <<order, authCapWhileCompleted, wh, amt, rl, rt>>

\* authorizePayment from the response of retrieveOrder to its next await or
\* end.  The processor knows no order under an id that lacks the format.
AuthorizePaymentRetrieve(p) ==
    /\ pc[p] = "ap_retrieve"
    /\ \E ok \in IF hist[p].malformed > 0 THEN {FALSE} ELSE BOOLEAN :
          IF ~ok
          THEN /\ Fail(p)
               /\ UNCHANGED orderDetails
          ELSE /\ orderDetails' = [orderDetails EXCEPT ![p] = order]
               /\ IF order.status = "APPROVED"
                  THEN /\ pc' = [pc EXCEPT ![p] = "ap_authorize"]
                       /\ hist' = IssuedUnchecked(p, "authorize")
                       /\ UNCHANGED result
                  ELSE /\ Finish(p, Returned(AuthorizeStatusForOrder(order), order,
                                             order.capture))
                       /\ UNCHANGED hist
    /\ UNCHANGED <<order, op, coDetails, ninv, authCapWhileCompleted, refund, wh, amt, rl, rt>>

\* PaypalService.authorizeOrder: the processor handles the authorize call and
\* authorizePayment reports on its response.
AuthorizeOrder(p) ==
    /\ pc[p] = "ap_authorize"
    /\ \E out \in RemoteAuthorizeOrder(order) :
          /\ order' = out.order
          /\ IF out.ok
             THEN Finish(p, Returned(AuthorizeStatusForResponse(out.response),
                                     [out.order EXCEPT !.auth = out.response.auth,
                                                       !.capture = out.response.capture],
                                     out.order.capture)) /\ UNCHANGED hist
             ELSE Fail(p)
    /\ UNCHANGED <<op, orderDetails, coDetails, ninv, authCapWhileCompleted, refund, wh, amt, rl, rt>>

\* PaypalService.refundPayment, the loop over the capture ids: the capture
\* id of the k-th refund call.
NextCaptureId_Reversed(captureIds, k) == captureIds[Len(captureIds) + 1 - k]

NextCaptureId(captureIds, k) == captureIds[k]

\* PaypalService.refundPayment, the loop over the capture ids: the next
\* refund is requested when the last one succeeded and ids remain.
RefundContinues_SkipFailed(ok, remaining) == remaining > 0

RefundContinues(ok, remaining) == ok /\ remaining > 0

\* refundPayment up to its first await: the checks on the input, then the
\* first refund call of PaypalService.refundPayment.
RefundPaymentStart(p) ==
    /\ Begin(p, "refundPayment")
    /\ \E input \in {"nodata", "noid", "badid", "ok"}, captureIds \in CaptureIdLists :
          IF /\ input = "ok"
             /\ Len(captureIds) > 0
             /\ \A i \in 1..Len(captureIds) : validatePayPalCaptureId(captureIds[i])
          THEN /\ pc' = [pc EXCEPT ![p] = "rf_refund"]
               /\ result' = [result EXCEPT ![p] = NoResult]
               /\ hist' = [hist EXCEPT ![p] = [NoCalls EXCEPT !.refund = 1]]
               /\ refund' = [refund EXCEPT ![p] =
                                [captureIds |-> captureIds, refunded |-> 0,
                                 called |-> <<NextCaptureId(captureIds, 1)>>]]
          ELSE /\ Finish(p, Thrown("invalid-input"))
               /\ hist' = [hist EXCEPT ![p] = NoCalls]
               /\ refund' = [refund EXCEPT ![p] = NoRefund]
    /\ UNCHANGED <<order, authCapWhileCompleted, wh, amt, rl, rt>>

\* The processor answers the refund of one capture; the loop goes on to the
\* next capture id, or refundPayment ends.
RefundCaptured(p) ==
    /\ pc[p] = "rf_refund"
    /\ \E ok \in BOOLEAN :
          LET h == [hist EXCEPT ![p].failed = IF ok THEN @ ELSE @ + 1] IN
          /\ IF RefundContinues(ok, Len(refund[p].captureIds) - hist[p].refund)
             THEN /\ hist' = [h EXCEPT ![p].refund = @ + 1]
                  /\ refund' = [refund EXCEPT
                                   ![p].refunded = IF ok THEN @ + 1 ELSE @,
                                   ![p].called = Append(@, NextCaptureId(refund[p].captureIds,
                                                                         hist[p].refund + 1))]
                  /\ UNCHANGED <<pc, result>>
             ELSE IF ok
             THEN /\ Finish(p, Returned("CANCELED", NoOrder, "NONE"))
                  /\ refund' = [refund EXCEPT ![p].refunded = @ + 1]
                  /\ UNCHANGED hist
             ELSE /\ Fail(p)
                  /\ UNCHANGED refund
    /\ UNCHANGED <<order, op, orderDetails, coDetails, ninv, authCapWhileCompleted, wh, amt, rl, rt>>

\* getPaymentStatus, the status reported for the retrieved order.
PaymentStatusFor_PendingWhenCreated(o) ==
    IF o.status = "COMPLETED" THEN "CAPTURED"
    ELSE IF o.status = "CREATED" THEN "PENDING"
    ELSE "AUTHORIZED"

PaymentStatusFor(o) == IF o.status = "COMPLETED" THEN "CAPTURED" ELSE "AUTHORIZED"

\* getPaymentStatus up to its await.
GetPaymentStatusStart(p) ==
    /\ Begin(p, "getPaymentStatus")
    /\ \E input \in {"nodata", "noid", "badid", "ok"} :
          IF input = "ok"
          THEN /\ pc' = [pc EXCEPT ![p] = "gs_retrieve"]
               /\ result' = [result EXCEPT ![p] = NoResult]
               /\ hist' = [hist EXCEPT ![p] = [NoCalls EXCEPT !.retrieve = 1]]
          ELSE /\ Finish(p, Thrown("invalid-input"))
               /\ hist' = [hist EXCEPT ![p] = NoCalls]
    /\ refund' = [refund EXCEPT ![p] = NoRefund]
    /\ UNCHANGED <<order, authCapWhileCompleted, wh, amt, rl, rt>>

\* getPaymentStatus from the response of retrieveOrder: an error, a body
\* without status, or the order.
GetPaymentStatusRetrieve(p) ==
    /\ pc[p] = "gs_retrieve"
    /\ \E answer \in {"error", "nostatus", "order"} :
          CASE answer = "error" ->
                 /\ Fail(p)
                 /\ UNCHANGED orderDetails
            [] answer = "nostatus" ->
                 /\ Finish(p, Thrown("not-found"))
                 /\ UNCHANGED <<orderDetails, hist>>
            [] OTHER ->
                 /\ orderDetails' = [orderDetails EXCEPT ![p] = order]
                 /\ Finish(p, Returned(PaymentStatusFor(order), NoOrder, order.capture))
                 /\ UNCHANGED hist
    /\ UNCHANGED <<order, op, coDetails, ninv, authCapWhileCompleted, refund, wh, amt, rl, rt>>

\* retrievePayment up to its await.
RetrievePaymentStart(p) ==
    /\ Begin(p, "retrievePayment")
    /\ \E input \in {"noid", "badid", "ok"} :
          IF input = "ok"
          THEN /\ pc' = [pc EXCEPT ![p] = "rp_retrieve"]
               /\ result' = [result EXCEPT ![p] = NoResult]
               /\ hist' = [hist EXCEPT ![p] = [NoCalls EXCEPT !.retrieve = 1]]
          ELSE /\ Finish(p, Thrown("invalid-input"))
               /\ hist' = [hist EXCEPT ![p] = NoCalls]
    /\ refund' = [refund EXCEPT ![p] = NoRefund]
    /\ UNCHANGED <<order, authCapWhileCompleted, wh, amt, rl, rt>>

\* retrievePayment from the response of retrieveOrder.
RetrievePaymentRetrieve(p) ==
    /\ pc[p] = "rp_retrieve"
    /\ \E ok \in BOOLEAN :
          IF ok
          THEN /\ orderDetails' = [orderDetails EXCEPT ![p] = order]
               /\ Finish(p, Returned("ORDER", order, order.capture))
               /\ UNCHANGED hist
          ELSE /\ Fail(p)
               /\ UNCHANGED orderDetails
    /\ UNCHANGED <<order, op, coDetails, ninv, authCapWhileCompleted, refund, wh, amt, rl, rt>>

\* cancelPayment, what it answers to its input; it has no await.
CancelPaymentOutput_Pending(input) ==
    IF input = "ok" THEN Returned("PENDING", NoOrder, "NONE") ELSE Thrown("invalid-input")

CancelPaymentOutput(input) ==
    IF input = "ok" THEN Returned("CANCELED", NoOrder, "NONE") ELSE Thrown("invalid-input")

CancelPayment(p) ==
    /\ Begin(p, "cancelPayment")
    /\ \E input \in {"nodata", "noid", "ok"} : Finish(p, CancelPaymentOutput(input))
    /\ hist' = [hist EXCEPT ![p] = NoCalls]
    /\ refund' = [refund EXCEPT ![p] = NoRefund]
    /\ UNCHANGED <<order, authCapWhileCompleted, wh, amt, rl, rt>>

\* deletePayment, what it answers to its input; it has no await.
DeletePaymentOutput(input) ==
    IF input = "ok" THEN Returned("CANCELED", NoOrder, "NONE") ELSE Thrown("invalid-input")

DeletePayment(p) ==
    /\ Begin(p, "deletePayment")
    /\ \E input \in {"nodata", "noid", "ok"} : Finish(p, DeletePaymentOutput(input))
    /\ hist' = [hist EXCEPT ![p] = NoCalls]
    /\ refund' = [refund EXCEPT ![p] = NoRefund]
    /\ UNCHANGED <<order, authCapWhileCompleted, wh, amt, rl, rt>>

----------------------------------------------------------------------------
(* The world outside the plugin *)

\* The buyer completes checkout: CREATED -> APPROVED.
BuyerApproves ==
    /\ order.status = "CREATED"
    /\ order' = [order EXCEPT !.status = "APPROVED"]
    /\ UNCHANGED <<pc, op, orderDetails, coDetails, result, hist, ninv,
                   authCapWhileCompleted, refund, wh, amt, rl, rt>>

\* The merchant voids the authorization from the processor's dashboard.
AuthorizationVoided ==
    /\ order.auth = "CREATED"
    /\ order' = [order EXCEPT !.auth = "VOIDED"]
    /\ UNCHANGED <<pc, op, orderDetails, coDetails, result, hist, ninv,
                   authCapWhileCompleted, refund, wh, amt, rl, rt>>

Next ==
    \/ \E p \in Procs :
          \/ CapturePaymentStart(p)
          \/ CapturePaymentRetrieve(p)
          \/ CaptureOrderStart(p)
          \/ CaptureOrderRetrieve(p)
          \/ CaptureOrderDecide(p)
          \/ CaptureAuthorization(p)
          \/ CaptureOrderRetrieveUpdated(p)
          \/ DirectCapture(p)
          \/ AuthorizePaymentStart(p)
          \/ AuthorizePaymentRetrieve(p)
          \/ AuthorizeOrder(p)
    \/ BuyerApproves
    \/ AuthorizationVoided

Spec == Init /\ [][Next]_vars

\* All provider operations, called one after the other by one caller.
NextProvider ==
    \/ \E p \in {"r1"} :
          \/ CapturePaymentStart(p)
          \/ CapturePaymentRetrieve(p)
          \/ CaptureOrderStart(p)
          \/ CaptureOrderRetrieve(p)
          \/ CaptureOrderDecide(p)
          \/ CaptureAuthorization(p)
          \/ CaptureOrderRetrieveUpdated(p)
          \/ DirectCapture(p)
          \/ AuthorizePaymentStart(p)
          \/ AuthorizePaymentRetrieve(p)
          \/ AuthorizeOrder(p)
          \/ RefundPaymentStart(p)
          \/ RefundCaptured(p)
          \/ GetPaymentStatusStart(p)
          \/ GetPaymentStatusRetrieve(p)
          \/ RetrievePaymentStart(p)
          \/ RetrievePaymentRetrieve(p)
          \/ CancelPayment(p)
          \/ DeletePayment(p)
    \/ BuyerApproves
    \/ AuthorizationVoided

SpecProvider == Init /\ [][NextProvider]_vars

----------------------------------------------------------------------------
(* Webhook requests *)

InitWebhook ==
    /\ order = NoOrder
    /\ pc = [p \in Procs |-> "idle"]
    /\ op = [p \in Procs |-> "none"]
    /\ orderDetails = [p \in Procs |-> NoOrder]
    /\ coDetails = [p \in Procs |-> NoOrder]
    /\ result = [p \in Procs |-> NoResult]
    /\ hist = [p \in Procs |-> NoCalls]
    /\ ninv = 0
    /\ authCapWhileCompleted = FALSE
    /\ refund = [p \in Procs |-> NoRefund]
    /\ \E hasWebhookId \in BOOLEAN : wh = WebhookIdle(hasWebhookId)
    /\ amt = AmountIdle(0, <<>>)
    /\ rl = RateLimiterNew
    /\ rt = RouteIdle

\* The catch of getWebhookActionAndData: the error is logged and FAILED is
\* returned (error records what was logged).
WebhookFailed_Rethrown(w, error) ==
    [w EXCEPT !.stage = "done",
              !.outcome = [kind |-> "throw", action |-> "NONE", error |-> error]]

WebhookFailed(w, error) ==
    [w EXCEPT !.stage = "done",
              !.outcome = [kind |-> "return", action |-> "FAILED", error |-> error]]

\* The host calls constructWebhookEvent on a payload.
ConstructWebhookEventCall ==
    /\ wh.stage = "idle"
    /\ \E headers \in SUBSET HeaderNames, raw \in RawKinds, eventType \in EventTypes :
          LET c == ConstructWebhookEvent(headers, raw) IN
          wh' = [WebhookIdle(wh.webhookId) EXCEPT
                    !.stage = "done", !.op = "constructWebhookEvent",
                    !.headers = headers, !.raw = raw, !.eventType = eventType,
                    !.construct = c, !.stages = ConstructStages(c),
                    !.outcome = IF c.ok
                                THEN [kind |-> "return", action |-> "NONE", error |-> "NONE"]
                                ELSE [kind |-> "throw", action |-> "NONE", error |-> c.error]]
    /\ UNCHANGED <<payVars, amt, rl, rt>>

\* getWebhookActionAndData after constructWebhookEvent: an error thrown by it
\* goes to the catch; otherwise verifyWebhook checks the webhook id and
\* requests a token.
StartVerification_Unconstructed(w) ==
    IF ~w.webhookId THEN WebhookFailed(w, "webhook-id-not-set")
    ELSE [w EXCEPT !.stage = "token", !.calls = <<"token">>]

StartVerification(w) ==
    IF ~w.construct.ok THEN WebhookFailed(w, w.construct.error)
    ELSE IF ~w.webhookId THEN WebhookFailed(w, "webhook-id-not-set")
    ELSE [w EXCEPT !.stage = "token", !.calls = <<"token">>]

\* getWebhookActionAndData up to its first await.
WebhookStart ==
    /\ wh.stage = "idle"
    /\ \E headers \in SUBSET HeaderNames, raw \in RawKinds, eventType \in EventTypes :
          LET c == ConstructWebhookEvent(headers, raw)
              w == [WebhookIdle(wh.webhookId) EXCEPT
                       !.op = "getWebhookActionAndData",
                       !.headers = headers, !.raw = raw, !.eventType = eventType,
                       !.construct = c, !.stages = ConstructStages(c)]
          IN  wh' = StartVerification(w)
    /\ UNCHANGED <<payVars, amt, rl, rt>>

\* PaypalService.getAccessToken answers; on success verifyWebhook posts to
\* the verification endpoint.
WebhookToken ==
    /\ wh.stage = "token"
    /\ \E ok \in BOOLEAN :
          wh' = IF ok
                THEN [wh EXCEPT !.stage = "verify", !.calls = Append(@, "verify")]
                ELSE WebhookFailed(wh, "upstream-failure")
    /\ UNCHANGED <<payVars, amt, rl, rt>>

\* The verification endpoint answers; getWebhookActionAndData maps the event
\* or fails.  Reading event_type of a body that is null throws.
WebhookVerify ==
    /\ wh.stage = "verify"
    /\ \E httpOk \in BOOLEAN, status \in {"SUCCESS", "FAILURE", "NONE"} :
          LET w == [wh EXCEPT !.verification =
                                 [received |-> TRUE, ok |-> httpOk,
                                  status |-> IF httpOk THEN status ELSE "NONE"]]
              v == [w EXCEPT !.stages = Append(@, "signature-verified")]
          IN  wh' = IF ~VerificationPasses(httpOk, status)
                    THEN WebhookFailed(w, "signature-invalid")
                    ELSE IF v.construct.body = "null"
                    THEN WebhookFailed(v, "type-error")
                    ELSE [v EXCEPT !.stage = "done", !.mapped = TRUE,
                                   !.stages = Append(@, "action-mapped"),
                                   !.outcome = [kind |-> "return",
                                                action |-> WebhookAction(w.eventType),
                                                error |-> "NONE"]]
    /\ UNCHANGED <<payVars, amt, rl, rt>>

NextWebhook ==
    \/ ConstructWebhookEventCall
    \/ WebhookStart
    \/ WebhookToken
    \/ WebhookVerify

SpecWebhook == InitWebhook /\ [][NextWebhook]_vars

----------------------------------------------------------------------------
(* Amounts *)

\* The amounts of the documentation: 10 and 19.005.
ExampleAmounts == {10000, 19005}

ItemPrices == {333, 1005, 19005}

ItemLists ==
    UNION {[1..n -> [unit_price : ItemPrices, quantity : 1..MaxQuantity]] : n \in 0..MaxItems}

InitAmount ==
    /\ order = NoOrder
    /\ pc = [p \in Procs |-> "idle"]
    /\ op = [p \in Procs |-> "none"]
    /\ orderDetails = [p \in Procs |-> NoOrder]
    /\ coDetails = [p \in Procs |-> NoOrder]
    /\ result = [p \in Procs |-> NoResult]
    /\ hist = [p \in Procs |-> NoCalls]
    /\ ninv = 0
    /\ authCapWhileCompleted = FALSE
    /\ refund = [p \in Procs |-> NoRefund]
    /\ wh = WebhookIdle(TRUE)
    /\ rl = RateLimiterNew
    /\ rt = RouteIdle
    /\ \/ \E amount \in (0..MaxMilli) \cup ExampleAmounts : amt = AmountIdle(amount, <<>>)
       \/ \E amount \in ExampleAmounts, items \in ItemLists : amt = AmountIdle(amount, items)

\* formatAmount applied to the amount.
FormatAmountCall ==
    /\ amt.stage = "idle"
    /\ amt' = [amt EXCEPT !.stage = "formatted",
                          !.formatted = formatAmount(NumberOf(amt.amount))]
    /\ UNCHANGED <<payVars, wh, rl, rt>>

\* createOrder up to its await: the amounts are formatted and the request
\* is sent.
CreateOrderStart ==
    /\ amt.stage = "idle"
    /\ amt' = [amt EXCEPT !.stage = "creating",
                          !.request = CreateOrderBody(amt.amount, amt.items)]
    /\ UNCHANGED <<payVars, wh, rl, rt>>

\* The processor answers: an error, a body without id, or the order.
CreateOrderResponse ==
    /\ amt.stage = "creating"
    /\ \E answer \in {"error", "noid", "order"} :
          amt' = [amt EXCEPT !.stage = "done",
                             !.outcome = IF answer = "order" THEN "return" ELSE "throw"]
    /\ UNCHANGED <<payVars, wh, rl, rt>>

NextAmount ==
    \/ FormatAmountCall
    \/ CreateOrderStart
    \/ CreateOrderResponse

SpecAmount == InitAmount /\ [][NextAmount]_vars

----------------------------------------------------------------------------
(* The rate limiter *)

InitRate ==
    /\ order = NoOrder
    /\ pc = [p \in Procs |-> "idle"]
    /\ op = [p \in Procs |-> "none"]
    /\ orderDetails = [p \in Procs |-> NoOrder]
    /\ coDetails = [p \in Procs |-> NoOrder]
    /\ result = [p \in Procs |-> NoResult]
    /\ hist = [p \in Procs |-> NoCalls]
    /\ ninv = 0
    /\ authCapWhileCompleted = FALSE
    /\ refund = [p \in Procs |-> NoRefund]
    /\ wh = WebhookIdle(TRUE)
    /\ amt = AmountIdle(0, <<>>)
    /\ rl = RateLimiterNew
    /\ rt = RouteIdle

\* rateLimiter.isRateLimited(key) at the present instant.
IsRateLimitedCall(key) ==
    /\ rl.calls < MaxCalls
    /\ rl' = LimiterCall(rl, key).rl
    /\ UNCHANGED <<payVars, wh, amt, rt>>

\* rateLimiter.cleanup(): the expired entries are deleted.
Cleanup ==
    /\ rl' = LimiterCleanup(rl)
    /\ UNCHANGED <<payVars, wh, amt, rt>>

\* Date.now() moves on.
ClockAdvance ==
    /\ \E t \in (rl.now + 1)..MaxTime : rl' = [rl EXCEPT !.now = t]
    /\ UNCHANGED <<payVars, wh, amt, rt>>

NextRate ==
    \/ \E key \in Keys : IsRateLimitedCall(key)
    \/ Cleanup
    \/ ClockAdvance

SpecRate == InitRate /\ [][NextRate]_vars

----------------------------------------------------------------------------
(* The client-token route.  Requests are served one after the other: the  *)
(* limiter is only touched before the first await of POST.                *)

InitRoute ==
    /\ order = NoOrder
    /\ pc = [p \in Procs |-> "idle"]
    /\ op = [p \in Procs |-> "none"]
    /\ orderDetails = [p \in Procs |-> NoOrder]
    /\ coDetails = [p \in Procs |-> NoOrder]
    /\ result = [p \in Procs |-> NoResult]
    /\ hist = [p \in Procs |-> NoCalls]
    /\ ninv = 0
    /\ authCapWhileCompleted = FALSE
    /\ refund = [p \in Procs |-> NoRefund]
    /\ wh = WebhookIdle(TRUE)
    /\ amt = AmountIdle(0, <<>>)
    /\ rl = RateLimiterNew
    /\ rt = RouteIdle

\* POST up to its first await: the session check, the limiter, the cleanup
\* drawn by Math.random(), the provider lookup and the token request sent.
RoutePost ==
    /\ rt.pc \in {"idle", "done"}
    /\ rt.served < MaxRequests
    /\ \E sessionId \in SessionIds, cleanup \in BOOLEAN, providers \in ProviderConfigs :
          LET e == PostEntry(sessionId, rl)
              fresh == [RouteIdle EXCEPT !.sessionId = sessionId,
                                         !.served = rt.served + 1,
                                         !.limited = e.limited,
                                         !.before = [store |-> rl.store,
                                                     calls |-> rl.calls]]
          IN  IF e.status = 400
              THEN /\ rt' = Respond(fresh, 400, ErrorBody("Invalid session ID"))
                   /\ rl' = e.rl
              ELSE IF e.status = 429
              THEN /\ rt' = Respond(fresh, 429,
                                    ErrorBody("Too many requests. Please try again later."))
                   /\ rl' = e.rl
              ELSE /\ rl' = IF cleanup THEN LimiterCleanup(e.rl) ELSE e.rl
                   /\ rt' = CASE providers = "unconfigured" ->
                                    Caught(fresh, "Payment providers not configured")
                              [] providers = "nopaypal" ->
                                    Respond(fresh, 404, ErrorBody("PayPal provider not found"))
                              [] OTHER ->
                                    [fresh EXCEPT !.pc = "token", !.outbound = 1]
    /\ UNCHANGED <<payVars, wh, amt>>

\* getAccessToken settles: an error goes to the catch, a token is carried
\* by the generate-token request.
RouteAccessToken ==
    /\ rt.pc = "token"
    /\ \E answer \in {"token"} \cup AccessTokenErrors :
          rt' = IF answer = "token"
                THEN [rt EXCEPT !.pc = "fetch", !.outbound = @ + 1]
                ELSE Caught(rt, answer)
    /\ UNCHANGED <<payVars, wh, amt, rl>>

\* The generate-token request settles and its body is read.
RouteGenerateToken ==
    /\ rt.pc = "fetch"
    /\ \E answer \in TokenAnswers, token \in ClientTokens :
          rt' = CASE answer = "not-ok" ->
                        Caught(rt, "Failed to generate PayPal client token")
                  [] answer = "not-json" ->
                        Caught(rt, "Unexpected token < in JSON at position 0")
                  [] answer = "no-token" ->
                        Caught(rt, "Invalid response from PayPal")
                  [] OTHER ->
                        Respond(rt, 201, [error |-> "", client_token |-> token])
    /\ UNCHANGED <<payVars, wh, amt, rl>>

\* Date.now() moves on between requests and awaits.
RouteClock ==
    /\ \E t \in (rl.now + 1)..MaxTime : rl' = [rl EXCEPT !.now = t]
    /\ UNCHANGED <<payVars, wh, amt, rt>>

NextRoute ==
    \/ RoutePost
    \/ RouteAccessToken
    \/ RouteGenerateToken
    \/ RouteClock

SpecRoute == InitRoute /\ [][NextRoute]_vars

----------------------------------------------------------------------------
(* The life of one order: created by initiatePayment or outside the plugin, *)
(* then approved, authorized and captured by concurrent requests.           *)

InitLifecycle ==
    /\ order = NoOrder
    /\ pc = [p \in Procs |-> "idle"]
    /\ op = [p \in Procs |-> "none"]
    /\ orderDetails = [p \in Procs |-> NoOrder]
    /\ coDetails = [p \in Procs |-> NoOrder]
    /\ result = [p \in Procs |-> NoResult]
    /\ hist = [p \in Procs |-> NoCalls]
    /\ ninv = 0
    /\ authCapWhileCompleted = FALSE
    /\ refund = [p \in Procs |-> NoRefund]
    /\ wh = WebhookIdle(TRUE)
    /\ amt = AmountIdle(0, <<>>)
    /\ rl = RateLimiterNew
    /\ rt = RouteIdle

\* The order the processor creates for a createOrder body.
CreatedOrder(body) ==
    [status |-> "CREATED", intent |-> body.intent, auth |-> "NONE", capture |-> "NONE"]

\* initiatePayment up to its await: the checks on the input, then createOrder
\* with its request body.
InitiatePaymentStart(p) ==
    /\ pc[p] \in {"idle", "done"}
    /\ order = NoOrder
    /\ amt.stage = "idle"
    /\ op' = [op EXCEPT ![p] = "initiatePayment"]
    /\ orderDetails' = [orderDetails EXCEPT ![p] = NoOrder]
    /\ coDetails' = [coDetails EXCEPT ![p] = NoOrder]
    /\ hist' = [hist EXCEPT ![p] = NoCalls]
    /\ refund' = [refund EXCEPT ![p] = NoRefund]
    /\ \E hasData \in BOOLEAN, amount \in {0} \cup ExampleAmounts :
          IF hasData /\ amount # 0
          THEN /\ pc' = [pc EXCEPT ![p] = "ip_create"]
               /\ result' = [result EXCEPT ![p] = NoResult]
               /\ amt' = [AmountIdle(amount, <<>>) EXCEPT
                             !.stage = "creating",
                             !.request = CreateOrderBody(amount, <<>>)]
          ELSE /\ Finish(p, Thrown("invalid-input"))
               /\ UNCHANGED amt
    /\ UNCHANGED <<order, ninv, authCapWhileCompleted, wh, rl, rt>>

\* The processor answers createOrder: an error, a body without id, or the
\* created order, which initiatePayment returns.
InitiatePaymentCreate(p) ==
    /\ pc[p] = "ip_create"
    /\ \E answer \in {"error", "noid", "order"} :
          IF answer = "order"
          THEN /\ order' = CreatedOrder(amt.request)
               /\ Finish(p, Returned("ORDER", CreatedOrder(amt.request), "NONE"))
               /\ amt' = [amt EXCEPT !.stage = "done", !.outcome = "return"]
               /\ UNCHANGED hist
          ELSE /\ Fail(p)
               /\ amt' = [amt EXCEPT !.stage = "done", !.outcome = "throw"]
               /\ UNCHANGED order
    /\ UNCHANGED <<op, orderDetails, coDetails, ninv, authCapWhileCompleted,
                   refund, wh, rl, rt>>

\* An order of either intent is created at the processor by another
\* integration of the merchant.
OrderCreatedElsewhere ==
    /\ order = NoOrder
    /\ amt.stage # "creating"
    /\ \E intent \in Intents :
          order' = [status |-> "CREATED", intent |-> intent,
                    auth |-> "NONE", capture |-> "NONE"]
    /\ UNCHANGED <<pc, op, orderDetails, coDetails, result, hist, ninv,
                   authCapWhileCompleted, refund, wh, amt, rl, rt>>

NextLifecycle ==
    \/ \E p \in Procs :
          \/ InitiatePaymentStart(p)
          \/ InitiatePaymentCreate(p)
    \/ OrderCreatedElsewhere
    \/ order # NoOrder /\ Next

SpecLifecycle == InitLifecycle /\ [][NextLifecycle]_vars

----------------------------------------------------------------------------
(* Claims about the status reconciler, checked under Spec *)

MutatingCalls(p) == hist[p].authCapture + hist[p].directCapture + hist[p].authorize

\* The order is not COMPLETED and its first authorization is CREATED.
CapturableAuthorization(o) ==
    o.status \notin {"NONE", "COMPLETED"} /\ o.auth = "CREATED"

\* C1: a capturePayment invocation that retrieved a COMPLETED order has
\* returned CAPTURED and issued no mutating remote call, whatever
\* authorization and capture the order carries; this holds of every
\* invocation, so of every repetition.
C1_CompletedCaptureIsIdempotent ==
    \A p \in Procs :
        (op[p] = "capturePayment" /\ orderDetails[p].status = "COMPLETED") =>
            /\ pc[p] = "done"
            /\ result[p].kind = "return"
            /\ result[p].status = "CAPTURED"
            /\ MutatingCalls(p) = 0
            /\ hist[p].retrieve = 1

\* C1 witness: two capturePayment invocations on the same COMPLETED order,
\* which still carries a CREATED authorization, both returned CAPTURED.
C1_Witness ==
    /\ ninv >= 2
    /\ order.auth = "CREATED"
    /\ \A p \in Procs :
          /\ op[p] = "capturePayment"
          /\ orderDetails[p].status = "COMPLETED"
          /\ result[p].status = "CAPTURED"

\* C2: whenever capturePayment has returned CAPTURED, the remote order held
\* a COMPLETED capture at the moment of the return.
C2_CapturedOnlyIfRemoteCaptureCompleted ==
    \A p \in Procs :
        (op[p] = "capturePayment" /\ result[p].kind = "return"
            /\ result[p].status = "CAPTURED") =>
            result[p].captureAtReturn = "COMPLETED"

\* C3: a capturePayment invocation on an order that is not COMPLETED and
\* whose first authorization is CREATED calls captureOrder; when the order is
\* still such at captureOrder's own retrieval, the invocation issues the
\* authorization-capture call, once, and never the direct order-capture
\* call, whatever the order's intent and status.
C3_AuthorizationIsCapturedNotTheOrder ==
    \A p \in Procs :
        (op[p] = "capturePayment" /\ CapturableAuthorization(orderDetails[p])) =>
            /\ coDetails[p] = NoOrder =>
                  /\ MutatingCalls(p) = 0
                  /\ \/ pc[p] = "co_retrieve"
                     \/ pc[p] = "done" /\ result[p] = Thrown("upstream-failure")
            /\ CapturableAuthorization(coDetails[p]) =>
                  /\ hist[p].directCapture = 0
                  /\ pc[p] # "co_decide" => hist[p].authCapture = 1

\* C3 witness: an order of intent CAPTURE and status APPROVED with a CREATED
\* authorization, for which the authorization-capture call was issued.
C3_Witness ==
    \E p \in Procs :
        /\ op[p] = "capturePayment"
        /\ CapturableAuthorization(orderDetails[p])
        /\ orderDetails[p].intent = "CAPTURE"
        /\ orderDetails[p].status = "APPROVED"
        /\ CapturableAuthorization(coDetails[p])
        /\ hist[p].authCapture = 1
        /\ pc[p] = "done"
        /\ result[p].status = "CAPTURED"

\* C4: no authorization-capture call is issued at a moment when the remote
\* order already holds a COMPLETED capture.
C4_NoAuthorizationCaptureAfterCompletedCapture ==
    ~authCapWhileCompleted

\* C5, as stated: a capturePayment invocation on an order with intent
\* CAPTURE, status APPROVED and no authorization (at both of its retrievals)
\* issues exactly one direct order-capture call and no authorization-capture
\* call.
DirectCapturable(o) ==
    o.intent = "CAPTURE" /\ o.status = "APPROVED" /\ o.auth = "NONE"

C5_DirectCaptureForApprovedCaptureIntent ==
    \A p \in Procs :
        (op[p] = "capturePayment" /\ DirectCapturable(orderDetails[p])
            /\ DirectCapturable(coDetails[p]) /\ pc[p] # "co_decide") =>
            /\ hist[p].directCapture = 1
            /\ hist[p].authCapture = 0

\* C5, amended: the same for an order that moreover has no COMPLETED capture;
\* and such an invocation always calls captureOrder.
C5_DirectCaptureUnlessAlreadyCaptured ==
    \A p \in Procs :
        (op[p] = "capturePayment" /\ DirectCapturable(orderDetails[p])) =>
            /\ coDetails[p] = NoOrder =>
                  /\ MutatingCalls(p) = 0
                  /\ \/ pc[p] = "co_retrieve"
                     \/ pc[p] = "done" /\ result[p] = Thrown("upstream-failure")
            /\ (DirectCapturable(coDetails[p]) /\ coDetails[p].capture # "COMPLETED") =>
                  /\ hist[p].authCapture = 0
                  /\ hist[p].directCapture = IF pc[p] = "co_decide" THEN 0 ELSE 1

\* C5 witness: the direct order-capture call was issued for such an order and
\* capturePayment returned.
C5_Witness ==
    \E p \in Procs :
        /\ op[p] = "capturePayment"
        /\ DirectCapturable(orderDetails[p])
        /\ DirectCapturable(coDetails[p])
        /\ coDetails[p].capture # "COMPLETED"
        /\ hist[p].directCapture = 1
        /\ pc[p] = "done"
        /\ result[p].status = "CAPTURED"

\* C6: a capturePayment invocation on an order whose status is neither
\* APPROVED nor COMPLETED and whose first authorization is not CREATED has
\* failed with an invalid-state error and issued no mutating remote call.
C6_InvalidStateFails ==
    \A p \in Procs :
        (op[p] = "capturePayment"
            /\ orderDetails[p].status \notin {"NONE", "APPROVED", "COMPLETED"}
            /\ orderDetails[p].auth # "CREATED") =>
            /\ pc[p] = "done"
            /\ result[p] = Thrown("invalid-state")
            /\ MutatingCalls(p) = 0
            /\ hist[p].retrieve = 1

\* C6 witness: a VOIDED order with a COMPLETED capture and a voided
\* authorization was refused.
C6_Witness ==
    \E p \in Procs :
        /\ op[p] = "capturePayment"
        /\ orderDetails[p].status = "VOIDED"
        /\ orderDetails[p].auth = "VOIDED"
        /\ orderDetails[p].capture = "COMPLETED"
        /\ result[p] = Thrown("invalid-state")

\* C7: an authorizePayment invocation that retrieved an APPROVED order issues
\* exactly one authorize call; when it returns it never reports CAPTURED, and
\* it reports AUTHORIZED if the response's authorization is CREATED or
\* CAPTURED.
C7_ApprovedOrderIsAuthorizedOnce ==
    \A p \in Procs :
        (op[p] = "authorizePayment" /\ orderDetails[p].status = "APPROVED") =>
            /\ hist[p].authorize = 1
            /\ hist[p].retrieve = 1
            /\ pc[p] \in {"ap_authorize", "done"}
            /\ (pc[p] = "done" /\ result[p].kind = "return") =>
                  /\ result[p].status # "CAPTURED"
                  /\ result[p].data.auth \in {"CREATED", "CAPTURED"} =>
                        result[p].status = "AUTHORIZED"

\* C7 witness: the processor captured at once (authorization CAPTURED) and
\* authorizePayment returned AUTHORIZED.
C7_Witness ==
    \E p \in Procs :
        /\ op[p] = "authorizePayment"
        /\ orderDetails[p].status = "APPROVED"
        /\ pc[p] = "done"
        /\ result[p].kind = "return"
        /\ result[p].data.auth = "CAPTURED"
        /\ result[p].status = "AUTHORIZED"

\* C8, as stated: an authorizePayment invocation that retrieved an order that
\* is not APPROVED issues no authorize call and returns PENDING for status
\* CREATED, CAPTURED for status COMPLETED and ERROR otherwise, whatever
\* authorization and capture the order carries.
C8_StatusAloneDecides ==
    \A p \in Procs :
        (op[p] = "authorizePayment"
            /\ orderDetails[p].status \notin {"NONE", "APPROVED"}) =>
            /\ hist[p].authorize = 0
            /\ pc[p] = "done"
            /\ result[p].kind = "return"
            /\ result[p].status =
                  (CASE orderDetails[p].status = "CREATED" -> "PENDING"
                     [] orderDetails[p].status = "COMPLETED" -> "CAPTURED"
                     [] OTHER -> "ERROR")

\* C8, amended: it issues no authorize call and returns AUTHORIZED if the
\* first authorization is CREATED; otherwise CAPTURED if the order status or
\* the first capture is COMPLETED; otherwise PENDING if the order status is
\* CREATED; otherwise ERROR.
C8_AuthorizationThenCaptureThenStatus ==
    \A p \in Procs :
        (op[p] = "authorizePayment"
            /\ orderDetails[p].status \notin {"NONE", "APPROVED"}) =>
            LET o == orderDetails[p] IN
            /\ hist[p].authorize = 0
            /\ MutatingCalls(p) = 0
            /\ pc[p] = "done"
            /\ result[p].kind = "return"
            /\ o.auth = "CREATED" => result[p].status = "AUTHORIZED"
            /\ (o.auth # "CREATED" /\ (o.status = "COMPLETED" \/ o.capture = "COMPLETED")) =>
                  result[p].status = "CAPTURED"
            /\ (o.auth # "CREATED" /\ o.capture # "COMPLETED" /\ o.status = "CREATED") =>
                  result[p].status = "PENDING"
            /\ (o.auth # "CREATED" /\ o.capture # "COMPLETED" /\ o.status = "VOIDED") =>
                  result[p].status = "ERROR"

\* C8 witness: a COMPLETED order whose authorization is still CREATED was
\* reported AUTHORIZED, and a CREATED order with a COMPLETED capture CAPTURED.
C8_Witness ==
    \E p, q \in Procs :
        /\ op[p] = "authorizePayment" /\ op[q] = "authorizePayment"
        /\ orderDetails[p].status = "COMPLETED" /\ orderDetails[p].auth = "CREATED"
        /\ result[p].status = "AUTHORIZED"
        /\ orderDetails[q].status = "COMPLETED" /\ orderDetails[q].auth = "VOIDED"
        /\ result[q].status = "CAPTURED"

----------------------------------------------------------------------------
(* Claims about the webhook verifier and mapper, checked under SpecWebhook *)

SignatureVerified(w) ==
    w.verification.received /\ w.verification.ok /\ w.verification.status = "SUCCESS"

\* C9: getWebhookActionAndData maps the event type to an action only if the
\* verification endpoint answered with HTTP success and verification_status
\* SUCCESS; otherwise (non-success response, other status, no webhook id,
\* failed token request) it returns FAILED whatever the event type.
C9_ActionOnlyAfterVerification ==
    (wh.op = "getWebhookActionAndData" /\ wh.stage = "done") =>
        /\ wh.mapped => SignatureVerified(wh) /\ wh.calls = <<"token", "verify">>
        /\ ~SignatureVerified(wh) =>
              /\ ~wh.mapped
              /\ wh.outcome.kind = "return"
              /\ wh.outcome.action = "FAILED"

\* C9 witness: the endpoint answered 200 with verification_status FAILURE to
\* a PAYMENT.CAPTURE.COMPLETED event, and FAILED was returned.
C9_Witness ==
    /\ wh.op = "getWebhookActionAndData"
    /\ wh.stage = "done"
    /\ wh.eventType = "PAYMENT.CAPTURE.COMPLETED"
    /\ wh.verification = [received |-> TRUE, ok |-> TRUE, status |-> "FAILURE"]
    /\ wh.outcome.action = "FAILED"

\* C10: constructWebhookEvent on a request that lacks any of the five
\* required headers throws the missing-header error, naming the first one
\* missing, and has not parsed the body, whatever the body is.
C10_MissingHeaderFailsBeforeParsing ==
    (wh.op = "constructWebhookEvent" /\ wh.stage = "done"
        /\ \E h \in HeaderNames : h \notin wh.headers) =>
        /\ wh.outcome.kind = "throw"
        /\ wh.outcome.error = "missing-header"
        /\ wh.construct.missing \in HeaderNames \ wh.headers
        /\ ~wh.construct.parsed

\* C10 witness: only paypal-transmission-time is absent and the body is not
\* JSON; the error is the missing-header one.
C10_Witness ==
    /\ wh.op = "constructWebhookEvent"
    /\ wh.stage = "done"
    /\ wh.headers = HeaderNames \ {"paypal-transmission-time"}
    /\ wh.raw = "garbage"
    /\ wh.outcome.error = "missing-header"

IsPrefix(s, t) == Len(s) <= Len(t) /\ \A i \in 1..Len(s) : s[i] = t[i]

\* C11: getWebhookActionAndData passes the stages headers-validated,
\* body-parsed, signature-verified, action-mapped in that order; a request
\* whose headers or body failed has issued no token request and no
\* verification call; a request that ended before the last stage ended with
\* the failure of the stage it stopped at, and once ended it passes no stage.
C11_StagesInOrder ==
    /\ [](wh.op = "getWebhookActionAndData" =>
            /\ IsPrefix(wh.stages, WebhookStages)
            /\ Len(wh.stages) < 2 => wh.calls = <<>>
            /\ (\E h \in HeaderNames : h \notin wh.headers) => wh.stages = <<>>
            /\ wh.raw = "garbage" => Len(wh.stages) <= 1
            /\ Len(wh.stages) >= 3 => wh.calls = <<"token", "verify">> /\ SignatureVerified(wh)
            /\ wh.mapped <=> Len(wh.stages) = 4
            /\ (wh.stage = "done" /\ Len(wh.stages) < 4) => wh.outcome.action = "FAILED")
    /\ [][wh.stage = "done" => wh' = wh]_vars

\* C11 witness: all headers present, body not JSON: the request ended after
\* headers-validated with no outbound call.
C11_Witness ==
    /\ wh.op = "getWebhookActionAndData"
    /\ wh.stage = "done"
    /\ wh.headers = HeaderNames
    /\ wh.raw = "garbage"
    /\ wh.stages = <<"headers-validated">>
    /\ wh.calls = <<>>
    /\ wh.outcome.action = "FAILED"

\* The request failed header validation, body parsing or signature
\* verification.
WebhookRejected(w) ==
    /\ w.op = "getWebhookActionAndData"
    /\ w.stage = "done"
    /\ \/ ~w.construct.ok
       \/ w.verification.received /\ ~SignatureVerified(w)

\* C12 as stated: a webhook that fails header validation, body parsing or
\* signature verification reaches the caller of getWebhookActionAndData as a
\* thrown typed error, not as a payment-action result.
C12_RejectionIsThrown ==
    WebhookRejected(wh) =>
        /\ wh.outcome.kind = "throw"
        /\ wh.outcome.error \in {"missing-header", "malformed-payload", "signature-invalid"}

\* C12 amended: such a webhook reaches the caller as the returned action
\* FAILED; the typed error is only logged.
C12_RejectionIsReturnedAsFailed ==
    WebhookRejected(wh) =>
        /\ wh.outcome.kind = "return"
        /\ wh.outcome.action = "FAILED"
        /\ ~wh.mapped
        /\ wh.outcome.error =
              IF ~wh.construct.ok THEN wh.construct.error ELSE "signature-invalid"
        /\ wh.outcome.error \in {"missing-header", "malformed-payload", "signature-invalid"}

\* C12 witness: a request without paypal-auth-algo got FAILED back.
C12_Witness ==
    /\ WebhookRejected(wh)
    /\ "paypal-auth-algo" \notin wh.headers
    /\ wh.construct.error = "missing-header"
    /\ wh.outcome = [kind |-> "return", action |-> "FAILED", error |-> "missing-header"]

\* The event of the request passed verification and the switch was reached.
WebhookMapped(w) ==
    w.op = "getWebhookActionAndData" /\ w.stage = "done" /\ w.mapped

\* C13: after successful verification PAYMENT.CAPTURE.COMPLETED gives the
\* success action, PAYMENT.CAPTURE.DENIED the failure action, and every event
\* type that is no case of the switch gives NOT_SUPPORTED, returned and not
\* thrown.
C13_CompletedDeniedAndUnknown ==
    WebhookMapped(wh) =>
        /\ wh.outcome.kind = "return"
        /\ wh.eventType = "PAYMENT.CAPTURE.COMPLETED" => wh.outcome.action = "SUCCESSFUL"
        /\ wh.eventType = "PAYMENT.CAPTURE.DENIED" => wh.outcome.action = "FAILED"
        /\ wh.eventType \notin SwitchCases =>
              wh.outcome.action = "NOT_SUPPORTED" /\ wh.outcome.error = "NONE"

\* C13 witness: a verified UNKNOWN.EVENT.TYPE event was answered NOT_SUPPORTED.
C13_Witness ==
    /\ WebhookMapped(wh)
    /\ SignatureVerified(wh)
    /\ wh.eventType = "UNKNOWN.EVENT.TYPE"
    /\ wh.outcome = [kind |-> "return", action |-> "NOT_SUPPORTED", error |-> "NONE"]

\* C14: after successful verification CHECKOUT.ORDER.CANCELLED gives CANCELED.
C14_OrderCancelledIsCanceled ==
    (WebhookMapped(wh) /\ wh.eventType = "CHECKOUT.ORDER.CANCELLED") =>
        wh.outcome.action = "CANCELED"

\* C15: after successful verification PAYMENT.CAPTURE.REFUNDED gives
\* NOT_SUPPORTED, never the success action.
C15_RefundedIsNotSupported ==
    (WebhookMapped(wh) /\ wh.eventType = "PAYMENT.CAPTURE.REFUNDED") =>
        wh.outcome.action = "NOT_SUPPORTED"

\* C16: after successful verification CHECKOUT.ORDER.APPROVED gives
\* AUTHORIZED.
C16_OrderApprovedIsAuthorized ==
    (WebhookMapped(wh) /\ wh.eventType = "CHECKOUT.ORDER.APPROVED") =>
        wh.outcome.action = "AUTHORIZED"

----------------------------------------------------------------------------
(* Claims about the provider operations, checked under SpecProvider *)

ProviderOperations ==
    {"capturePayment", "authorizePayment", "refundPayment", "getPaymentStatus",
     "retrievePayment"}

\* C17: no provider operation has issued a remote call carrying an order,
\* authorization or capture id on which it had not run the format check
\* first.
C17_NoCallWithUncheckedId ==
    \A p \in Procs : op[p] \in ProviderOperations => hist[p].unchecked = 0

RemoteCalls(h) == h.retrieve + h.authorize + h.authCapture + h.directCapture + h.refund

\* C18: in capturePayment, authorizePayment and refundPayment at most one
\* remote call of an invocation fails; when one has failed the invocation
\* has ended with an error, and it issues no remote call afterwards; the
\* mutating calls are issued at most once each, a refund at most once for
\* each capture id of the list.
C18_FailureEndsTheOperation ==
    /\ [](\A p \in Procs :
            op[p] \in {"capturePayment", "authorizePayment", "refundPayment"} =>
                /\ hist[p].failed <= 1
                /\ hist[p].failed = 1 => pc[p] = "done" /\ result[p].kind = "throw"
                /\ hist[p].authorize <= 1
                /\ hist[p].authCapture <= 1
                /\ hist[p].directCapture <= 1
                /\ hist[p].refund <= Len(refund[p].captureIds))
    /\ [][\A p \in Procs :
            (/\ op[p] \in {"capturePayment", "authorizePayment", "refundPayment"}
             /\ hist[p].failed > 0
             /\ ninv' = ninv) => RemoteCalls(hist'[p]) = RemoteCalls(hist[p])]_vars

\* C18 witness: refundPayment with two capture ids; the first was refunded,
\* the refund of the second failed, and the operation ended with an error
\* after two calls.
C18_Witness ==
    \E p \in Procs :
        /\ op[p] = "refundPayment"
        /\ pc[p] = "done"
        /\ refund[p] = [captureIds |-> <<"CAP1", "CAP2">>, refunded |-> 1,
                        called |-> <<"CAP1", "CAP2">>]
        /\ hist[p].refund = 2
        /\ hist[p].failed = 1
        /\ result[p] = Thrown("upstream-failure")

----------------------------------------------------------------------------
(* Claims about amounts, checked under SpecAmount *)

\* The string is digits, a point and two digits.
TwoDecimals(f) ==
    /\ Len(f) >= 4
    /\ f[Len(f) - 2] = "."
    /\ \A i \in (1..Len(f)) \ {Len(f) - 2} : \E k \in 1..10 : f[i] = DigitChars[k]

DigitValue(c) == (CHOOSE k \in 1..10 : DigitChars[k] = c) - 1

\* The number of cents the first k characters of f denote, the point left out.
RECURSIVE CentsOfString(_, _)
CentsOfString(f, k) ==
    IF k = 0 THEN 0
    ELSE IF f[k] = "." THEN CentsOfString(f, k - 1)
    ELSE 10 * CentsOfString(f, k - 1) + DigitValue(f[k])

\* f is a two-decimal string of a cent value nearest to milli thousandths:
\* no other cent value is nearer, and unless milli lies halfway between two
\* cents f is the one nearest.
NearestCent(f, milli) ==
    /\ TwoDecimals(f)
    /\ LET cents == CentsOfString(f, Len(f)) IN
       /\ 10 * cents <= milli + 5
       /\ milli <= 10 * cents + 5
       /\ milli % 10 # 5 => cents = (milli + 5) \div 10

RECURSIVE ExactItemTotal(_, _)
ExactItemTotal(items, k) ==
    IF k = 0 THEN 0
    ELSE ExactItemTotal(items, k - 1) + items[k].unit_price * items[k].quantity

\* C19: formatAmount returns the amount rounded to the nearest cent as a
\* string with exactly two decimals, 19.005 giving "19.01" and 10 giving
\* "10.00"; the order total, every item unit amount and the item total of
\* the body createOrder sends are such strings of their amounts.
C19_AmountsAreFormatted ==
    /\ amt.stage = "formatted" =>
          /\ NearestCent(amt.formatted, amt.amount)
          /\ amt.amount = 19005 => amt.formatted = <<"1", "9", ".", "0", "1">>
          /\ amt.amount = 10000 => amt.formatted = <<"1", "0", ".", "0", "0">>
    /\ amt.request.sent =>
          /\ NearestCent(amt.request.value, amt.amount)
          /\ Len(amt.request.unitAmounts) = Len(amt.items)
          /\ \A i \in 1..Len(amt.items) :
                NearestCent(amt.request.unitAmounts[i], amt.items[i].unit_price)
          /\ amt.request.hasItems <=> Len(amt.items) > 0
          /\ NearestCent(amt.request.itemTotal,
                         IF Len(amt.items) > 0 THEN ExactItemTotal(amt.items, Len(amt.items))
                         ELSE amt.amount)

\* C19 witness: 19.005 was formatted as "19.01".
C19_Witness ==
    /\ amt.stage = "formatted"
    /\ amt.amount = 19005
    /\ amt.formatted = <<"1", "9", ".", "0", "1">>

----------------------------------------------------------------------------
(* Claims about the rate limiter, checked under SpecRate *)

\* The calls of the client that returned false at an instant from..to.
AdmittedBetween(key, from, to) ==
    Cardinality({i \in 1..Len(rl.admitted[key]) :
                    from <= rl.admitted[key][i] /\ rl.admitted[key][i] <= to})

----------------------------------------------------------------------------
(* Claims about the client-token route, checked under SpecRoute *)

\* C21: a request whose session_id is missing, not a string or shorter than
\* ten characters is answered 400, sends nothing to PayPal and leaves the
\* limiter as it found it; a request the limiter refuses is answered 429 and
\* sends nothing to PayPal.
C21_InvalidOrLimitedIsRejected ==
    rt.pc # "idle" =>
        /\ InvalidSessionId(rt.sessionId) =>
              /\ rt.status = 400
              /\ rt.outbound = 0
              /\ ~rt.limited
              /\ rl.store = rt.before.store
              /\ rl.calls = rt.before.calls
        /\ rt.limited => rt.status = 429 /\ rt.outbound = 0

\* C21 witness: a request of a valid session refused by the limiter, the
\* session having used its quota, after a request with an invalid session id.
C21_Witness ==
    /\ rt.pc = "done"
    /\ rt.status = 429
    /\ rt.limited
    /\ ~InvalidSessionId(rt.sessionId)
    /\ rl.store[ClientKey(rt.sessionId)].count = Limit
    /\ rt.served > rl.calls

\* C22: every error caught in the route is answered 500 with the fixed
\* message, whatever the error says, and a client_token is only sent with
\* status 201.
C22_FailuresAreGeneric ==
    /\ rt.error # "" => rt.status = 500
    /\ rt.status = 500 => rt.body = ErrorBody(GenericError)
    /\ rt.body.client_token # "" => rt.status = 201

\* C22 witness: the token request failed with a message of its own and the
\* response is the fixed one.
C22_Witness ==
    /\ rt.pc = "done"
    /\ rt.error \in AccessTokenErrors
    /\ rt.status = 500
    /\ rt.outbound = 1

----------------------------------------------------------------------------
(* Further claims about the status reconciler, checked under Spec *)

\* The authorizePayment call of request q has created an authorization.
CreatedAuthorization(q) ==
    /\ op[q] = "authorizePayment"
    /\ pc[q] = "done"
    /\ result[q].kind = "return"
    /\ hist[q].authorize = 1
    /\ result[q].data.auth \in {"CREATED", "CAPTURED"}

\* C23: once an authorizePayment call has created the authorization of the
\* order, no other authorizePayment call has the remote authorize call
\* issued for it.
C23_NoAuthorizeCallAfterAuthorization ==
    \A p, q \in Procs :
        (p # q /\ CreatedAuthorization(q)) => pc[p] # "ap_authorize"

\* C25: a capturePayment invocation that went into captureOrder has the order
\* retrieved a second time, and an authorization-capture call is only issued
\* by an invocation whose later retrieval showed the authorization CREATED.
C25_CallChosenFromLaterRetrieval ==
    \A p \in Procs :
        /\ (op[p] = "capturePayment" /\ coDetails[p] # NoOrder) =>
              (orderDetails[p] # NoOrder /\ hist[p].retrieve >= 2)
        /\ (pc[p] = "co_capture_authorization" \/ hist[p].authCapture > 0) =>
              coDetails[p].auth = "CREATED"

\* C25 witness: capturePayment first retrieved the authorization CREATED,
\* captureOrder then retrieved it captured or voided, and the invocation has
\* ended without an authorization-capture call.
C25_Witness ==
    \E p \in Procs :
        /\ op[p] = "capturePayment"
        /\ pc[p] = "done"
        /\ orderDetails[p].auth = "CREATED"
        /\ coDetails[p].auth \in {"CAPTURED", "VOIDED"}
        /\ hist[p].authCapture = 0

----------------------------------------------------------------------------
(* Claims about orders created by the plugin, checked under SpecLifecycle *)

\* The order was created by initiatePayment.
CreatedByPlugin == order # NoOrder /\ amt.outcome = "return"

\* C24: an order created by initiatePayment has intent AUTHORIZE; no request
\* issues the direct capture of such an order; and capturePayment on such an
\* order that captureOrder retrieved APPROVED and without authorization
\* throws, having issued no authorize or capture call.
C24_PluginOrdersAreAuthorizeIntent ==
    CreatedByPlugin =>
        /\ order.intent = "AUTHORIZE"
        /\ \A p \in Procs :
              /\ hist[p].directCapture = 0
              /\ pc[p] # "co_capture_order"
              /\ (/\ op[p] = "capturePayment"
                  /\ pc[p] = "done"
                  /\ coDetails[p].status = "APPROVED"
                  /\ coDetails[p].auth = "NONE")
                 => (result[p].kind = "throw" /\ MutatingCalls(p) = 0)

\* C24 witness: capturePayment has thrown on an order created by the plugin
\* that the buyer approved and nobody authorized.
C24_Witness ==
    /\ CreatedByPlugin
    /\ \E p \in Procs :
          /\ op[p] = "capturePayment"
          /\ pc[p] = "done"
          /\ coDetails[p] = [status |-> "APPROVED", intent |-> "AUTHORIZE",
                             auth |-> "NONE", capture |-> "NONE"]
          /\ result[p].kind = "throw"
          /\ result[p].error = "invalid-state"

----------------------------------------------------------------------------
(* Further claims about the provider operations, checked under SpecProvider *)

\* C26: a cancelPayment or deletePayment invocation issues no remote call,
\* leaves the remote order as it is and, when it returns, returns CANCELED;
\* an authorization that was CREATED is CREATED after it.
C26_CancelAndDeleteAreLocal ==
    [][\A p \in Procs :
          (op'[p] \in {"cancelPayment", "deletePayment"} /\ ninv' # ninv) =>
              /\ order' = order
              /\ hist'[p] = NoCalls
              /\ pc'[p] = "done"
              /\ result'[p].kind = "return" => result'[p].status = "CANCELED"]_vars

\* C26 witness: cancelPayment has returned CANCELED for an approved order
\* whose authorization is CREATED and which capturePayment would capture.
C26_Witness ==
    /\ op["r1"] = "cancelPayment"
    /\ pc["r1"] = "done"
    /\ result["r1"].status = "CANCELED"
    /\ CapturableAuthorization(order)
    /\ CapturePaymentBranch(order) = "authorization"
    /\ ninv < MaxInvocations

\* C27: refundPayment requests the refunds of the capture ids of its list in
\* the order of the list, one call for each entry, each after the one before
\* succeeded; when a call fails it ends with an error that says nothing of
\* the refunds made, which stay made, and when all succeeded it returns
\* CANCELED.
C27_RefundsInOrderUntilFailure ==
    \A p \in Procs :
        op[p] = "refundPayment" /\ hist[p].refund > 0 =>
            /\ IsPrefix(refund[p].called, refund[p].captureIds)
            /\ Len(refund[p].called) = hist[p].refund
            /\ pc[p] = "rf_refund" =>
                  (hist[p].failed = 0 /\ refund[p].refunded = hist[p].refund - 1)
            /\ (pc[p] = "done" /\ result[p].kind = "throw") =>
                  /\ hist[p].failed = 1
                  /\ refund[p].refunded = hist[p].refund - 1
                  /\ result[p] = Thrown("upstream-failure")
            /\ (pc[p] = "done" /\ result[p].kind = "return") =>
                  /\ result[p].status = "CANCELED"
                  /\ hist[p].failed = 0
                  /\ refund[p].called = refund[p].captureIds
                  /\ refund[p].refunded = Len(refund[p].captureIds)

\* C27 witness: of the list CAP2, CAP1 the first capture was refunded and
\* the refund of the second failed; the caller has the error only.
C27_Witness ==
    \E p \in Procs :
        /\ op[p] = "refundPayment"
        /\ pc[p] = "done"
        /\ refund[p] = [captureIds |-> <<"CAP2", "CAP1">>, refunded |-> 1,
                        called |-> <<"CAP2", "CAP1">>]
        /\ hist[p].failed = 1
        /\ result[p].kind = "throw"

\* C28: getPaymentStatus issues the retrieve call and no other; it returns
\* CAPTURED when the retrieved order has status COMPLETED and AUTHORIZED for
\* every other status, CREATED and VOIDED among them.
C28_StatusFromOrderStatusAlone ==
    \A p \in Procs :
        op[p] = "getPaymentStatus" =>
            /\ hist[p].retrieve <= 1
            /\ RemoteCalls(hist[p]) = hist[p].retrieve
            /\ (pc[p] = "done" /\ result[p].kind = "return") =>
                  /\ hist[p].retrieve = 1
                  /\ orderDetails[p].status \in OrderStatuses
                  /\ result[p].status \in {"CAPTURED", "AUTHORIZED"}
                  /\ result[p].status = "CAPTURED" <=> orderDetails[p].status = "COMPLETED"

\* C28 witness: getPaymentStatus has returned AUTHORIZED for an order that
\* is VOIDED and has no authorization.
C28_Witness ==
    \E p \in Procs :
        /\ op[p] = "getPaymentStatus"
        /\ pc[p] = "done"
        /\ orderDetails[p].status = "VOIDED"
        /\ orderDetails[p].auth = "NONE"
        /\ result[p].status = "AUTHORIZED"

----------------------------------------------------------------------------
(* Further claims about the rate limiter, checked under SpecRate *)

\* The entry has been in the store beyond its resetTime.
Expired(entry, now) == entry.present /\ now > entry.resetTime

\* C29: every isRateLimited call returns what it returns from a limiter that
\* received the same calls at the same instants and no cleanup, the two
\* stores differing only in expired entries that cleanup has deleted; and a
\* cleanup deletes the entries whose resetTime has passed and leaves the
\* others as they are.
C29_CleanupIsTransparent ==
    /\ [](/\ rl.last.op = "isRateLimited" => rl.last.limited = rl.shadowLimited
          /\ \A k \in Keys :
                \/ rl.store[k] = rl.shadow[k]
                \/ rl.store[k] = NoEntry /\ Expired(rl.shadow[k], rl.now))
    /\ [][(rl'.last.op = "cleanup" /\ rl'.now = rl.now /\ rl'.calls = rl.calls) =>
            \A k \in Keys :
                rl'.store[k] = IF Expired(rl.store[k], rl.now) THEN NoEntry
                               ELSE rl.store[k]]_vars

\* C29 witness: one client has been admitted once more than the limit, its
\* entry the same in both limiters; the entry of the other client has
\* expired and cleanup has deleted it, while the limiter that was never
\* cleaned still holds it.
C29_Witness ==
    \E k \in Keys, j \in Keys :
        /\ k # j
        /\ rl.last = [op |-> "isRateLimited", key |-> k, limited |-> FALSE]
        /\ Len(rl.admitted[k]) = Limit + 1
        /\ rl.store[k] = rl.shadow[k]
        /\ rl.store[j] = NoEntry
        /\ Expired(rl.shadow[j], rl.now)

\* C30: an isRateLimited call that returns true leaves the store as it is;
\* no isRateLimited call changes the entry of another client; and the call
\* made for a client after its resetTime has passed returns false and opens
\* a new window with count 1.
C30_RefusalLeavesTheStore ==
    [][(rl'.last.op = "isRateLimited" /\ rl'.calls = rl.calls + 1) =>
          /\ \A k \in Keys : k # rl'.last.key => rl'.store[k] = rl.store[k]
          /\ rl'.last.limited => rl'.store = rl.store
          /\ Expired(rl.store[rl'.last.key], rl.now) =>
                /\ ~rl'.last.limited
                /\ rl'.store[rl'.last.key] =
                      [present |-> TRUE, count |-> 1, resetTime |-> rl.now + WindowMs]]_vars

\* C30 witness: the first client used its quota, was refused, and has been
\* admitted by its first call after its resetTime; the other client's entry
\* is still as its only call left it.
C30_Witness ==
    \E k \in Keys, j \in Keys :
        /\ k # j
        /\ rl.last = [op |-> "isRateLimited", key |-> k, limited |-> FALSE]
        /\ Len(rl.admitted[k]) = Limit + 1
        /\ Len(rl.admitted[j]) = 1
        /\ rl.calls = Limit + 3
        /\ rl.store[k] = [present |-> TRUE, count |-> 1, resetTime |-> rl.now + WindowMs]
        /\ rl.store[j].count = 1

====
